---------------------------- MODULE Spec2Model ----------------------------
(***************************************************************************)
(* Model of the WebStorage engine of vue-web-storage (src/src/storage.ts)  *)
(* and of the helpers it uses (src/src/types.ts, lines 85-206): item       *)
(* envelopes with expiry, prefixed keys, optional XOR/Base64 obfuscation   *)
(* and the listener registry, over one browser Storage object that the     *)
(* engines share with each other and with foreign code.                    *)
(*                                                                         *)
(* Representation.                                                         *)
(*  - A key is a sequence of one-character strings, so that prefixing,     *)
(*    startsWith and substring are the real string operations.             *)
(*  - A JavaScript value is an atom (a string naming it): "undefined",     *)
(*    "null", "n1", "n2" (two numbers), "date1" (a Date), "iso1" (the ISO  *)
(*    string JSON writes for that Date), "wide" (a string with a character *)
(*    code above 255), "dflt" (a caller's default).                        *)
(*  - A number-or-missing field (a duration, an expiry) is a record        *)
(*    [k, n] with k in "undefined", "null", "num".                         *)
(*  - A stored text is a record [kind, ekey, doc]: kind "json" is the      *)
(*    JSON text of doc, kind "b64" is btoa of that JSON text XOR-ed with   *)
(*    the key ekey, kind "junk" is a text that is neither JSON nor         *)
(*    Base64, kind "empty" is the empty string.                            *)
(*  - Every engine method is an operator from (options, listeners, args,   *)
(*    store, clock) to [ret, store, events]; an action is one call of it.  *)
(*    A call of a Storage method that is in `broken` throws.               *)
(*  - The reactive binding (src/src/composables.ts: useStorage and         *)
(*    StorageState) is the record `binding`. Vue's watch is its            *)
(*    environment: a change of the watched cell queues one run of the      *)
(*    callback, the scheduler runs it later with the value the cell then   *)
(*    holds (action Flush), and a stopped watcher's queued run is dropped. *)
(***************************************************************************)
EXTENDS Integers, Sequences, FiniteSets, TLC

VARIABLES
  store,      \* the Storage object: sequence of [key, text], in key(i) order
  broken,     \* the methods of the Storage object that throw at present
  now,        \* Date.now()
  options,    \* engine id -> its resolved options (this.options)
  listeners,  \* engine id -> event type -> the registered listeners, in insertion order
  binding,    \* the reactive binding of the page: [made, key, dflt, cell, pending, watching]
  last,       \* the call that has just returned: [op, e, key, val, arg, removed]
  ret,        \* what that call returned ("void" when it returns nothing)
  events,     \* the event records delivered to listeners during that call
  scope       \* which universe of arguments the callers of this run draw from

vars == <<store, broken, now, options, listeners, binding, last, ret, events, scope>>

\* ------------------------------------------------------------------ bounds

\* The clock runs from 0 to MaxTime.
MaxTime == 2
\* The Storage object refuses a new key once it holds Quota entries
\* (QuotaExceededError).
Quota == 2
\* The default duration of the engine configured with one.
DefaultDuration == 2
\* The longest string handed to the obfuscation functions as characters.
MaxChars == 2

\* ------------------------------------------------------- values and fields

Undef == [k |-> "undefined", n |-> 0]
Null == [k |-> "null", n |-> 0]
Num(n) == [k |-> "num", n |-> n]

\* Mutant of ??: a configured (non-zero) right operand wins over the left one.
Coalesce_PreferDefault(a, b) == IF b.k = "num" /\ b.n # 0 THEN b ELSE a

\* a ?? b
Coalesce(a, b) == IF a.k \in {"undefined", "null"} THEN b ELSE a

\* x || undefined, for a number-or-missing x: 0 is falsy
OrUndefined(x) == IF x.k = "num" /\ x.n # 0 THEN x ELSE Undef

\* a ?? null, for value atoms (options.defaultValue ?? null)
CoalesceNull(v) == IF v \in {"undefined", "null"} THEN "null" ELSE v

EventTypes == {"set", "get", "remove", "clear", "expired"}
\* Listener functions: L1 and L2 return normally, X1 throws when invoked.
Throwing == {"X1"}
\* R1 calls back into the engine that invokes it: it writes the key of the
\* event again, this.set(data.key, 2). It is registered for event types
\* other than `set`.
Reentrant == {"R1"}

\* ------------------------------------------------------------- strings

startsWith(s, p) == Len(p) <= Len(s) /\ SubSeq(s, 1, Len(p)) = p

substring(s, n) == SubSeq(s, n + 1, Len(s))

\* ------------------------------------------------------------- helpers

\* Mutant of isExpired: an item is expired at its expiry time already (>=).
isExpired_NonStrict(expires, t) ==
  IF expires.k \in {"null", "undefined"} THEN FALSE ELSE t >= expires.n

\* Mutant of isExpired: no test for null, which compares as 0.
isExpired_NullIsZero(expires, t) ==
  IF expires.k = "undefined" THEN FALSE ELSE t > expires.n

isExpired(expires, t) ==
  IF expires.k = "null" THEN FALSE
  ELSE IF expires.k = "undefined" THEN FALSE   \* Date.now() > undefined
  ELSE t > expires.n

\* Mutant of calculateExpires: the duration is taken for the timestamp.
calculateExpires_NoClock(expires, t) ==
  IF expires.k = "undefined" THEN Null ELSE Num(expires.n)

calculateExpires(expires, t) ==
  IF expires.k = "undefined" THEN Null ELSE Num(t + expires.n)

deepClone(obj) ==
  CASE obj \in {"undefined", "null", "n1", "n2", "iso1", "wide", "dflt"} -> obj
    [] obj = "date1" -> "date1"        \* new Date(obj.getTime())
    [] OTHER -> obj

\* JSON.stringify of a property value: an undefined property is left out,
\* a Date becomes its ISO string.
JsonValue(v) ==
  CASE v = "undefined" -> "undefined"
    [] v = "date1" -> "iso1"
    [] OTHER -> v

NoDoc == [shape |-> "none", value |-> "undefined", expires |-> Undef, created |-> Undef]
NullDoc == [shape |-> "null", value |-> "undefined", expires |-> Undef, created |-> Undef]

\* JSON.stringify(item) for item = {value, expires, created}, as the document
\* its text denotes.
JsonStringify(item) ==
  [shape |-> "object", value |-> JsonValue(item.value),
   expires |-> item.expires, created |-> item.created]

\* Whether the JSON text of a document holds a character code above 255:
\* "wide" is a string with such a character.
HasWideChar(doc) == doc.value = "wide"

Throw == [kind |-> "throw", ekey |-> "", doc |-> NoDoc]

\* XOR with the key, then btoa; btoa throws on a character code above 255.
encrypt(doc, key) ==
  IF HasWideChar(doc) THEN Throw
  ELSE [kind |-> "b64", ekey |-> key, doc |-> doc]

\* atob, then XOR with the key; when atob throws the text is returned as is.
\* atob rejects a JSON text (it holds a brace, a quote or has a length atob
\* refuses) and a junk text; JSON `null` is valid Base64 and decodes to
\* bytes that are no JSON.
decrypt(text, key) ==
  CASE text.kind = "b64" /\ text.ekey = key ->
         [kind |-> "json", ekey |-> "", doc |-> text.doc]
    [] text.kind = "b64" /\ text.ekey # key ->
         [kind |-> "junk", ekey |-> "", doc |-> NoDoc]
    [] text.kind = "json" /\ text.doc.shape = "null" ->
         [kind |-> "junk", ekey |-> "", doc |-> NoDoc]
    [] OTHER -> text

serialize(data, shouldEncrypt, encryptKey) ==
  IF shouldEncrypt
    THEN encrypt(JsonStringify(data), encryptKey)
    ELSE [kind |-> "json", ekey |-> "", doc |-> JsonStringify(data)]

\* JSON.parse of the (decrypted) text; null when it throws.
deserialize(data, encrypted, encryptKey) ==
  LET jsonString == IF encrypted THEN decrypt(data, encryptKey) ELSE data
  IN IF jsonString.kind = "json" THEN jsonString.doc ELSE NullDoc

\* Mutant of HasField: any object passes, whatever fields it has.
HasField_AnyObject(item, field) == item.shape = "object"

\* item && typeof item === 'object' && field in item
HasField(item, field) ==
  /\ item.shape = "object"
  /\ IF field = "value" THEN item.value # "undefined" ELSE item.expires.k # "undefined"

\* The length of the JSON text of a value or of a number-or-null field.
JsonLen(v) ==
  CASE v \in {"n1", "n2"} -> 1
    [] v = "null" -> 4
    [] v = "iso1" -> 26
    [] v = "wide" -> 3
    [] OTHER -> 0

FieldLen(f) ==
  CASE f.k = "null" -> 4
    [] f.k = "num" -> IF f.n < 0 THEN 2 ELSE IF f.n < 10 THEN 1 ELSE 2
    [] OTHER -> 0

\* The length of the JSON text of a document: {"value":V,"expires":E,"created":C}
\* without the properties the document lacks; `null`; a one-digit number.
DocLen(doc) ==
  CASE doc.shape = "null" -> 4
    [] doc.shape = "scalar" -> 1
    [] OTHER ->
         LET nv == IF doc.value = "undefined" THEN 0 ELSE 8 + JsonLen(doc.value)
             ne == IF doc.expires.k = "undefined" THEN 0 ELSE 10 + FieldLen(doc.expires)
             nc == IF doc.created.k = "undefined" THEN 0 ELSE 10 + FieldLen(doc.created)
             props == (IF nv > 0 THEN 1 ELSE 0) + (IF ne > 0 THEN 1 ELSE 0)
                        + (IF nc > 0 THEN 1 ELSE 0)
         IN 2 + nv + ne + nc + (IF props > 0 THEN props - 1 ELSE 0)

\* data.length: btoa writes 4 characters for every 3; the junk text is "{oops".
TextLen(text) ==
  CASE text.kind = "json" -> DocLen(text.doc)
    [] text.kind = "b64" -> 4 * ((DocLen(text.doc) + 2) \div 3)
    [] text.kind = "junk" -> 5
    [] OTHER -> 0

\* ------------------------------------- obfuscation, character by character

\* Strings as sequences of UTF-16 code units, for the functions of types.ts
\* applied to the JSON text of a string value.

\* charCode ^ keyCode
RECURSIVE BitXor(_, _)
BitXor(a, b) ==
  IF a = 0 THEN b
  ELSE IF b = 0 THEN a
  ELSE (((a % 2) + (b % 2)) % 2) + 2 * BitXor(a \div 2, b \div 2)

\* The loop of encrypt and of decrypt: each code unit XOR the key's, the key
\* repeating.
XorWithKey(text, key) ==
  [i \in 1..Len(text) |-> BitXor(text[i], key[((i - 1) % Len(key)) + 1])]

\* The Base64 alphabet: A-Z, a-z, 0-9, +, /; `=` pads.
B64Char(v) ==
  IF v < 26 THEN 65 + v
  ELSE IF v < 52 THEN 71 + v
  ELSE IF v < 62 THEN v - 4
  ELSE IF v = 62 THEN 43 ELSE 47

B64Index(c) ==
  IF c \in 65..90 THEN c - 65
  ELSE IF c \in 97..122 THEN c - 71
  ELSE IF c \in 48..57 THEN c + 4
  ELSE IF c = 43 THEN 62
  ELSE IF c = 47 THEN 63 ELSE -1

Pad == 61

RECURSIVE ToBase64(_)
ToBase64(b) ==
  IF Len(b) = 0 THEN <<>>
  ELSE IF Len(b) = 1
    THEN <<B64Char(b[1] \div 4), B64Char((b[1] % 4) * 16), Pad, Pad>>
  ELSE IF Len(b) = 2
    THEN <<B64Char(b[1] \div 4), B64Char((b[1] % 4) * 16 + b[2] \div 16),
           B64Char((b[2] % 16) * 4), Pad>>
  ELSE <<B64Char(b[1] \div 4), B64Char((b[1] % 4) * 16 + b[2] \div 16),
         B64Char((b[2] % 16) * 4 + b[3] \div 64), B64Char(b[3] % 64)>>
         \o ToBase64(SubSeq(b, 4, Len(b)))

\* btoa(binary): InvalidCharacterError for a code unit above 255.
btoa(binary) ==
  IF \E i \in 1..Len(binary) : binary[i] > 255
    THEN [ok |-> FALSE, text |-> <<>>]
    ELSE [ok |-> TRUE, text |-> ToBase64(binary)]

RECURSIVE FromBase64(_)
FromBase64(v) ==
  IF Len(v) < 2 THEN <<>>
  ELSE IF Len(v) = 2 THEN <<v[1] * 4 + v[2] \div 16>>
  ELSE IF Len(v) = 3 THEN <<v[1] * 4 + v[2] \div 16, (v[2] % 16) * 16 + v[3] \div 4>>
  ELSE <<v[1] * 4 + v[2] \div 16, (v[2] % 16) * 16 + v[3] \div 4, (v[3] % 4) * 64 + v[4]>>
         \o FromBase64(SubSeq(v, 5, Len(v)))

\* atob(text): one or two `=` are dropped from a text whose length is a
\* multiple of 4; InvalidCharacterError for a character outside the alphabet
\* and for a length of 4n + 1.
atob(text) ==
  LET n == Len(text)
      pads == IF n % 4 = 0 /\ n > 0 /\ text[n] = Pad
                THEN (IF text[n - 1] = Pad THEN 2 ELSE 1)
                ELSE 0
      body == SubSeq(text, 1, n - pads)
  IN IF (\E i \in 1..Len(body) : B64Index(body[i]) = -1) \/ Len(body) % 4 = 1
       THEN [ok |-> FALSE, text |-> <<>>]
       ELSE [ok |-> TRUE, text |-> FromBase64([i \in 1..Len(body) |-> B64Index(body[i])])]

\* encrypt(text, key) on code units: [ok, text], ok false when btoa throws.
encryptText(text, key) == btoa(XorWithKey(text, key))

\* decrypt(encryptedText, key) on code units: the text itself when atob throws.
decryptText(encryptedText, key) ==
  IF atob(encryptedText).ok THEN XorWithKey(atob(encryptedText).text, key)
  ELSE encryptedText

\* The characters JSON.stringify writes as they are inside a string.
PlainChar(c) == c >= 32 /\ c # 34 /\ c # 92 /\ c \notin 55296..57343

\* JSON.stringify(x) for a string x of such characters
StringifyString(x) == <<34>> \o x \o <<34>>

\* JSON.parse(text) for the text of a string; ok false when it throws.
ParseString(text) ==
  IF /\ Len(text) >= 2 /\ text[1] = 34 /\ text[Len(text)] = 34
     /\ \A i \in 2..(Len(text) - 1) : PlainChar(text[i])
    THEN [ok |-> TRUE, value |-> SubSeq(text, 2, Len(text) - 1)]
    ELSE [ok |-> FALSE, value |-> <<>>]

\* serialize(data, shouldEncrypt, encryptKey) for a string data; ok false when
\* it throws.
serializeText(data, shouldEncrypt, encryptKey) ==
  IF shouldEncrypt THEN encryptText(StringifyString(data), encryptKey)
  ELSE [ok |-> TRUE, text |-> StringifyString(data)]

\* deserialize(data, encrypted, encryptKey): ok false stands for null.
deserializeText(data, encrypted, encryptKey) ==
  ParseString(IF encrypted THEN decryptText(data, encryptKey) ELSE data)

\* ------------------------------------------------ the Storage object

\* The members of the Storage object the engine reads and deletes with.
StorageMethods == {"getItem", "removeItem", "length", "key"}

\* A call of member m of the Storage object throws.
Throws(m) == m \in broken

NoText == [kind |-> "absent", ekey |-> "", doc |-> NoDoc]

IndexOf(st, fk) ==
  IF \E i \in 1..Len(st) : st[i].key = fk
    THEN CHOOSE i \in 1..Len(st) : st[i].key = fk
    ELSE 0

\* storage.getItem(fullKey): null when absent
getItem(st, fk) == IF IndexOf(st, fk) = 0 THEN NoText ELSE st[IndexOf(st, fk)].text

\* !data: null or the empty string
Falsy(data) == data.kind \in {"absent", "empty"}

\* storage.removeItem(fullKey): the other keys keep their order
removeItem(st, fk) ==
  LET i == IndexOf(st, fk)
  IN IF i = 0 THEN st ELSE SubSeq(st, 1, i - 1) \o SubSeq(st, i + 1, Len(st))

\* Mutant of setItem: the text of a key that exists is kept.
setItem_KeepsExisting(st, fk, text, p) ==
  IF IndexOf(st, fk) # 0 THEN [ok |-> TRUE, store |-> st]
  ELSE IF Len(st) >= Quota THEN [ok |-> FALSE, store |-> st]
  ELSE [ok |-> TRUE,
        store |-> SubSeq(st, 1, p) \o <<[key |-> fk, text |-> text]>>
                    \o SubSeq(st, p + 1, Len(st))]

\* storage.setItem(fullKey, text). An existing key keeps its place; a new key
\* lands at place p of the enumeration order, which the browser chooses. A
\* full store throws QuotaExceededError, and leaves the store as it was, for
\* a new key and for a text longer than the one it replaces.
setItem(st, fk, text, p) ==
  LET i == IndexOf(st, fk)
  IN IF i # 0
       THEN IF Len(st) >= Quota /\ TextLen(text) > TextLen(st[i].text)
              THEN [ok |-> FALSE, store |-> st]
              ELSE [ok |-> TRUE, store |-> [st EXCEPT ![i].text = text]]
     ELSE IF Len(st) >= Quota THEN [ok |-> FALSE, store |-> st]
     ELSE [ok |-> TRUE,
           store |-> SubSeq(st, 1, p) \o <<[key |-> fk, text |-> text]>>
                       \o SubSeq(st, p + 1, Len(st))]

\* ------------------------------------------------------ the engine (WebStorage)

getFullKey(opt, key) == opt.prefix \o key

NoKey == {}
NoValue == "undefined"

\* The listeners before the first one that throws, and that one.
RECURSIVE UpToThrow(_)
UpToThrow(fs) ==
  IF fs = <<>> THEN <<>>
  ELSE IF Head(fs) \in Throwing THEN <<Head(fs)>>
  ELSE <<Head(fs)>> \o UpToThrow(Tail(fs))

\* Mutant of emit: no try/catch around the listener, the first exception
\* ends the forEach.
emit_NoCatch(ls, type, key, value, t, st) ==
  IF ls[type] # <<>>
    THEN <<[type |-> type, key |-> key, value |-> value, timestamp |-> t,
            to |-> UpToThrow(ls[type]), caught |-> <<>>, seen |-> st]>>
    ELSE <<>>

\* emit(type, data): the deliveries of one event, none without a listener.
\* key is NoKey or {key}; to is the listeners invoked, in the order of the
\* forEach; caught is those whose exception the try/catch swallowed; seen is
\* the Storage object as it is when they are invoked (st).
emit(ls, type, key, value, t, st) ==
  IF ls[type] # <<>>
    THEN <<[type |-> type, key |-> key, value |-> value, timestamp |-> t,
            to |-> ls[type],
            caught |-> SelectSeq(ls[type], LAMBDA f : f \in Throwing),
            seen |-> st]>>
    ELSE <<>>

Result(r, st, evs) == [ret |-> r, store |-> st, events |-> evs]

\* The options of a set(key, value) that passes none.
NoArg == [expires |-> Undef, encrypt |-> "undefined"]

\* Mutant of set: the `set` event is emitted whether or not the write
\* succeeded.
set_AlwaysEmits(opt, ls, key, value, o, st, t, tc, p) ==
  LET item == [value |-> deepClone(value),
               expires |-> calculateExpires(
                             OrUndefined(Coalesce(o.expires, opt.defaultExpires)), t),
               created |-> Num(tc)]
      shouldEncrypt == IF o.encrypt = "undefined" THEN opt.encrypt ELSE o.encrypt = "true"
      serializedData == serialize(item, shouldEncrypt, opt.encryptKey)
      w == setItem(st, getFullKey(opt, key), serializedData, p)
  IN IF serializedData.kind = "throw" \/ ~w.ok
       THEN Result(FALSE, st, emit(ls, "set", {key}, value, tc, st))
       ELSE Result(TRUE, w.store, emit(ls, "set", {key}, value, tc, w.store))

\* Mutant of set: the `set` event is emitted before the write is tried.
set_EmitsFirst(opt, ls, key, value, o, st, t, tc, p) ==
  LET item == [value |-> deepClone(value),
               expires |-> calculateExpires(
                             OrUndefined(Coalesce(o.expires, opt.defaultExpires)), t),
               created |-> Num(tc)]
      shouldEncrypt == IF o.encrypt = "undefined" THEN opt.encrypt ELSE o.encrypt = "true"
      serializedData == serialize(item, shouldEncrypt, opt.encryptKey)
      w == setItem(st, getFullKey(opt, key), serializedData, p)
  IN IF serializedData.kind = "throw" \/ ~w.ok
       THEN Result(FALSE, st, emit(ls, "set", {key}, value, tc, st))
       ELSE Result(TRUE, w.store, emit(ls, "set", {key}, value, tc, st))

\* Mutant of set: a call without a duration keeps the expiry of the envelope
\* it replaces.
set_KeepsExpiry(opt, ls, key, value, o, st, t, tc, p) ==
  LET fullKey == getFullKey(opt, key)
      old == deserialize(getItem(st, fullKey), opt.encrypt, opt.encryptKey)
      expires == IF o.expires.k = "undefined" /\ HasField(old, "expires")
                   THEN old.expires
                   ELSE calculateExpires(
                          OrUndefined(Coalesce(o.expires, opt.defaultExpires)), t)
      item == [value |-> deepClone(value), expires |-> expires, created |-> Num(tc)]
      shouldEncrypt == IF o.encrypt = "undefined" THEN opt.encrypt ELSE o.encrypt = "true"
      serializedData == serialize(item, shouldEncrypt, opt.encryptKey)
      w == setItem(st, fullKey, serializedData, p)
  IN IF serializedData.kind = "throw" \/ ~w.ok
       THEN Result(FALSE, st, <<>>)
       ELSE Result(TRUE, w.store, emit(ls, "set", {key}, value, tc, w.store))

\* set(key, value, options): o = [expires, encrypt], encrypt in
\* "undefined", "true", "false". The clock is read at t for the expiry and
\* read again, at tc >= t, for `created` and for the event.
set(opt, ls, key, value, o, st, t, tc, p) ==
  LET fullKey == getFullKey(opt, key)
      expires == calculateExpires(OrUndefined(Coalesce(o.expires, opt.defaultExpires)), t)
      item == [value |-> deepClone(value), expires |-> expires, created |-> Num(tc)]
      shouldEncrypt == IF o.encrypt = "undefined" THEN opt.encrypt ELSE o.encrypt = "true"
      serializedData == serialize(item, shouldEncrypt, opt.encryptKey)
      w == setItem(st, fullKey, serializedData, p)
  IN IF serializedData.kind = "throw" \/ ~w.ok
       THEN Result(FALSE, st, <<>>)
       ELSE Result(TRUE, w.store, emit(ls, "set", {key}, value, tc, w.store))

\* What the listeners of one delivery leave behind when st is the Storage
\* object at the delivery: nothing new unless a listener that calls back is
\* among them and the event names a key; then the result of its set (a key
\* that is new takes the last place).
react(opt, ls, type, key, st, t) ==
  IF key # NoKey /\ \E i \in DOMAIN ls[type] : ls[type][i] \in Reentrant
    THEN set(opt, ls, CHOOSE k \in key : TRUE, "n2", NoArg, st, t, t, Len(st))
    ELSE Result("void", st, <<>>)

\* Mutant of remove: the event is emitted only when an entry was deleted.
remove_QuietWhenAbsent(opt, ls, key, st, t) ==
  Result(TRUE, removeItem(st, getFullKey(opt, key)),
         IF getItem(st, getFullKey(opt, key)) = NoText
           THEN <<>>
           ELSE emit(ls, "remove", {key}, NoValue, t, removeItem(st, getFullKey(opt, key))))

\* Mutant of remove: the event is emitted before the deletion is tried.
remove_EmitsFirst(opt, ls, key, st, t) ==
  IF Throws("removeItem")
    THEN Result(FALSE, st, emit(ls, "remove", {key}, NoValue, t, st))
    ELSE Result(TRUE, removeItem(st, getFullKey(opt, key)),
                emit(ls, "remove", {key}, NoValue, t, removeItem(st, getFullKey(opt, key))))

remove(opt, ls, key, st, t) ==
  IF Throws("removeItem")
    THEN Result(FALSE, st, <<>>)
    ELSE LET removed == removeItem(st, getFullKey(opt, key))
             r == react(opt, ls, "remove", {key}, removed, t)
         IN Result(TRUE, r.store,
                   emit(ls, "remove", {key}, NoValue, t, removed) \o r.events)

\* Mutant of get: an expired entry is reported but left in the store.
get_NoEvict(opt, ls, key, defaultValue, st, t) ==
  LET data == getItem(st, getFullKey(opt, key))
      item == deserialize(data, opt.encrypt, opt.encryptKey)
      dflt == CoalesceNull(defaultValue)
  IN IF Falsy(data) \/ ~HasField(item, "value") THEN Result(dflt, st, <<>>)
     ELSE IF isExpired(item.expires, t)
       THEN Result(dflt, st, emit(ls, "expired", {key}, NoValue, t, st))
     ELSE Result(deepClone(item.value), st, emit(ls, "get", {key}, item.value, t, st))

get(opt, ls, key, defaultValue, st, t) ==
  LET fullKey == getFullKey(opt, key)
      data == getItem(st, fullKey)
      item == deserialize(data, opt.encrypt, opt.encryptKey)
      dflt == CoalesceNull(defaultValue)
  IN IF Throws("getItem") THEN Result(dflt, st, <<>>)
     ELSE IF Falsy(data) THEN Result(dflt, st, <<>>)
     ELSE IF ~HasField(item, "value") THEN Result(dflt, st, <<>>)
     ELSE IF isExpired(item.expires, t)
       THEN LET r == remove(opt, ls, key, st, t)
                x == react(opt, ls, "expired", {key}, r.store, t)
            IN Result(dflt, x.store,
                      r.events \o emit(ls, "expired", {key}, NoValue, t, r.store)
                        \o x.events)
     ELSE LET x == react(opt, ls, "get", {key}, st, t)
          IN Result(deepClone(item.value), x.store,
                    emit(ls, "get", {key}, item.value, t, st) \o x.events)

\* Mutant of has: a live entry with an expiry is written back with its
\* life extended by one unit (a sliding expiry).
has_Refreshes(opt, ls, key, st, t) ==
  LET fullKey == getFullKey(opt, key)
      data == getItem(st, fullKey)
      item == deserialize(data, opt.encrypt, opt.encryptKey)
  IN IF Throws("getItem") THEN Result(FALSE, st, <<>>)
     ELSE IF Falsy(data) THEN Result(FALSE, st, <<>>)
     ELSE IF ~HasField(item, "expires") THEN Result(FALSE, st, <<>>)
     ELSE IF isExpired(item.expires, t)
       THEN LET r == remove(opt, ls, key, st, t)
            IN Result(FALSE, r.store, r.events)
     ELSE IF item.expires.k = "num"
       THEN Result(TRUE,
                   [st EXCEPT ![IndexOf(st, fullKey)].text.doc.expires.n = @ + 1], <<>>)
     ELSE Result(TRUE, st, <<>>)

has(opt, ls, key, st, t) ==
  LET fullKey == getFullKey(opt, key)
      data == getItem(st, fullKey)
      item == deserialize(data, opt.encrypt, opt.encryptKey)
  IN IF Throws("getItem") THEN Result(FALSE, st, <<>>)
     ELSE IF Falsy(data) THEN Result(FALSE, st, <<>>)
     ELSE IF ~HasField(item, "expires") THEN Result(FALSE, st, <<>>)
     ELSE IF isExpired(item.expires, t)
       THEN LET r == remove(opt, ls, key, st, t)
            IN Result(FALSE, r.store, r.events)
     ELSE Result(TRUE, st, <<>>)

\* Mutant of PrefixedKeys: every key of the Storage object is collected.
PrefixedKeys_All(opt, st) == [i \in 1..Len(st) |-> st[i].key]

\* The keys collected by the first loop of clear(), in enumeration order.
PrefixedKeys(opt, st) ==
  SelectSeq([i \in 1..Len(st) |-> st[i].key], LAMBDA k : startsWith(k, opt.prefix))

\* keysToRemove.forEach(key => this.storage.removeItem(key))
RECURSIVE RemoveAll(_, _)
RemoveAll(st, ks) ==
  IF ks = <<>> THEN st ELSE RemoveAll(removeItem(st, Head(ks)), Tail(ks))

\* Mutant of clear: the `clear` event is emitted before the deletion.
clear_EmitsFirst(opt, ls, st, t) ==
  Result(TRUE, RemoveAll(st, PrefixedKeys(opt, st)), emit(ls, "clear", NoKey, NoValue, t, st))

\* The loop `for (i = 0; i < storage.length; i++) storage.key(i)` throws.
EnumerationThrows(st) == Throws("length") \/ (Throws("key") /\ Len(st) > 0)

clear(opt, ls, st, t) ==
  IF EnumerationThrows(st) \/ (Throws("removeItem") /\ PrefixedKeys(opt, st) # <<>>)
    THEN Result(FALSE, st, <<>>)
    ELSE Result(TRUE, RemoveAll(st, PrefixedKeys(opt, st)),
                emit(ls, "clear", NoKey, NoValue, t, RemoveAll(st, PrefixedKeys(opt, st))))

\* Mutant of ExpiredKeys: the prefix is not tested.
ExpiredKeys_AnyPrefix(opt, st, t) ==
  SelectSeq([i \in 1..Len(st) |-> st[i].key],
            LAMBDA k : /\ ~Falsy(getItem(st, k))
                       /\ LET item == deserialize(getItem(st, k), opt.encrypt, opt.encryptKey)
                          IN HasField(item, "expires") /\ isExpired(item.expires, t))

\* Mutant of ExpiredKeys: a text that does not decode to an envelope is
\* collected too.
ExpiredKeys_Undecoded(opt, st, t) ==
  SelectSeq([i \in 1..Len(st) |-> st[i].key],
            LAMBDA k : /\ startsWith(k, opt.prefix)
                       /\ ~Falsy(getItem(st, k))
                       /\ LET item == deserialize(getItem(st, k), opt.encrypt, opt.encryptKey)
                          IN ~HasField(item, "expires") \/ isExpired(item.expires, t))

\* The keys collected by the loop of clearExpired(), in enumeration order.
ExpiredKeys(opt, st, t) ==
  SelectSeq([i \in 1..Len(st) |-> st[i].key],
            LAMBDA k : /\ startsWith(k, opt.prefix)
                       /\ ~Falsy(getItem(st, k))
                       /\ LET item == deserialize(getItem(st, k), opt.encrypt, opt.encryptKey)
                          IN HasField(item, "expires") /\ isExpired(item.expires, t))

\* Mutant of clearExpired: every deletion goes through remove(), which emits
\* a `remove` event per key.
clearExpired_ViaRemove(opt, ls, st, t) ==
  LET keysToRemove == ExpiredKeys(opt, st, t)
      left == RemoveAll(st, keysToRemove)
  IN Result(Len(keysToRemove), left,
            (IF ls["remove"] = <<>> THEN <<>>
             ELSE [i \in 1..Len(keysToRemove) |->
                     emit(ls, "remove", {substring(keysToRemove[i], Len(opt.prefix))},
                          NoValue, t, left)[1]])
            \o (IF Len(keysToRemove) > 0
                  THEN emit(ls, "expired", NoKey, NoValue, t, left) ELSE <<>>))

\* Mutant of clearExpired: the event is emitted whatever the count.
clearExpired_AlwaysEmits(opt, ls, st, t) ==
  Result(Len(ExpiredKeys(opt, st, t)), RemoveAll(st, ExpiredKeys(opt, st, t)),
         emit(ls, "expired", NoKey, NoValue, t, RemoveAll(st, ExpiredKeys(opt, st, t))))

\* The loop of clearExpired() or getStats() throws: the enumeration does, or
\* the getItem of the first key under the prefix.
ScanThrows(opt, st) ==
  EnumerationThrows(st) \/ (Throws("getItem") /\ PrefixedKeys(opt, st) # <<>>)

clearExpired(opt, ls, st, t) ==
  LET keysToRemove == ExpiredKeys(opt, st, t)
      clearedCount == Len(keysToRemove)
  IN IF ScanThrows(opt, st) \/ (Throws("removeItem") /\ keysToRemove # <<>>)
       THEN Result(0, st, <<>>)
       ELSE Result(clearedCount, RemoveAll(st, keysToRemove),
                   IF clearedCount > 0
                     THEN emit(ls, "expired", NoKey, NoValue, t, RemoveAll(st, keysToRemove))
                     ELSE <<>>)

\* The loop of keys() from index i (0-based in the code, 1-based here): has()
\* may remove an entry while the loop runs, and storage.length is read again
\* at every step.
RECURSIVE KeysLoop(_, _, _, _, _, _, _)
KeysLoop(opt, ls, i, st, ks, evs, t) ==
  IF i > Len(st) THEN Result(ks, st, evs)
  ELSE LET fullKey == st[i].key
       IN IF startsWith(fullKey, opt.prefix)
            THEN LET key == substring(fullKey, Len(opt.prefix))
                     h == has(opt, ls, key, st, t)
                 IN KeysLoop(opt, ls, i + 1, h.store,
                             IF h.ret THEN Append(ks, key) ELSE ks, evs \o h.events, t)
            ELSE KeysLoop(opt, ls, i + 1, st, ks, evs, t)

keys(opt, ls, st, t) ==
  IF EnumerationThrows(st) THEN Result(<<>>, st, <<>>)
  ELSE KeysLoop(opt, ls, 1, st, <<>>, <<>>, t)

\* Mutant of StatsLoop: an entry without an `expires` field is counted in
\* total but in neither class.
RECURSIVE StatsLoop_DropsUnknown(_, _, _, _, _)
StatsLoop_DropsUnknown(opt, i, st, acc, t) ==
  IF i > Len(st) THEN acc
  ELSE LET fullKey == st[i].key
           data == getItem(st, fullKey)
           item == deserialize(data, opt.encrypt, opt.encryptKey)
           counted == [acc EXCEPT !.total = @ + 1,
                                  !.usedBytes = @ + Len(fullKey) + TextLen(data)]
       IN IF ~startsWith(fullKey, opt.prefix) \/ Falsy(data)
            THEN StatsLoop_DropsUnknown(opt, i + 1, st, acc, t)
          ELSE IF ~HasField(item, "expires")
            THEN StatsLoop_DropsUnknown(opt, i + 1, st, counted, t)
          ELSE IF isExpired(item.expires, t)
            THEN StatsLoop_DropsUnknown(opt, i + 1, st, [counted EXCEPT !.expired = @ + 1], t)
          ELSE StatsLoop_DropsUnknown(opt, i + 1, st, [counted EXCEPT !.valid = @ + 1], t)

\* Mutant of StatsLoop: an entry without an `expires` field is counted as
\* expired.
RECURSIVE StatsLoop_UnknownExpired(_, _, _, _, _)
StatsLoop_UnknownExpired(opt, i, st, acc, t) ==
  IF i > Len(st) THEN acc
  ELSE LET fullKey == st[i].key
           data == getItem(st, fullKey)
           item == deserialize(data, opt.encrypt, opt.encryptKey)
           counted == [acc EXCEPT !.total = @ + 1,
                                  !.usedBytes = @ + Len(fullKey) + TextLen(data)]
       IN IF ~startsWith(fullKey, opt.prefix) \/ Falsy(data)
            THEN StatsLoop_UnknownExpired(opt, i + 1, st, acc, t)
          ELSE IF HasField(item, "expires") /\ ~isExpired(item.expires, t)
            THEN StatsLoop_UnknownExpired(opt, i + 1, st, [counted EXCEPT !.valid = @ + 1], t)
          ELSE StatsLoop_UnknownExpired(opt, i + 1, st, [counted EXCEPT !.expired = @ + 1], t)

\* The loop of getStats() from index i.
RECURSIVE StatsLoop(_, _, _, _, _)
StatsLoop(opt, i, st, acc, t) ==
  IF i > Len(st) THEN acc
  ELSE LET fullKey == st[i].key
           data == getItem(st, fullKey)
           item == deserialize(data, opt.encrypt, opt.encryptKey)
           counted == [acc EXCEPT !.total = @ + 1,
                                  !.usedBytes = @ + Len(fullKey) + TextLen(data)]
       IN IF ~startsWith(fullKey, opt.prefix) \/ Falsy(data)
            THEN StatsLoop(opt, i + 1, st, acc, t)
          ELSE IF HasField(item, "expires") /\ isExpired(item.expires, t)
            THEN StatsLoop(opt, i + 1, st, [counted EXCEPT !.expired = @ + 1], t)
          ELSE StatsLoop(opt, i + 1, st, [counted EXCEPT !.valid = @ + 1], t)

\* Mutant of getStats: the entries it counts as expired are deleted, as by
\* clearExpired().
getStats_Sweeps(opt, ls, st, t) ==
  LET zero == [total |-> 0, expired |-> 0, valid |-> 0, usedBytes |-> 0]
  IN IF ScanThrows(opt, st) THEN Result(zero, st, <<>>)
     ELSE Result(StatsLoop(opt, 1, st, zero, t),
                 clearExpired(opt, ls, st, t).store, clearExpired(opt, ls, st, t).events)

getStats(opt, ls, st, t) ==
  LET zero == [total |-> 0, expired |-> 0, valid |-> 0, usedBytes |-> 0]
  IN IF ScanThrows(opt, st) THEN Result(zero, st, <<>>)
     ELSE Result(StatsLoop(opt, 1, st, zero, t), st, <<>>)

\* The elements of a sequence.
Range(f) == {f[i] : i \in DOMAIN f}

\* Mutant of on: the registry of a type is an array, a listener is appended
\* whether or not it is there already.
on_Array(ls, type, listener) == [ls EXCEPT ![type] = Append(@, listener)]

\* on(type, listener), on one engine's registry: Set.add keeps a listener
\* that is there already where it is.
on(ls, type, listener) ==
  [ls EXCEPT ![type] = IF listener \in Range(@) THEN @ ELSE Append(@, listener)]

\* off(type, listener): Set.delete
off(ls, type, listener) ==
  [ls EXCEPT ![type] = SelectSeq(@, LAMBDA f : f # listener)]

NoListeners == [type \in EventTypes |-> <<>>]

\* ------------------------------- the reactive binding (useStorage, StorageState)

\* a ?? b, for value atoms
CoalesceValue(a, b) == IF a \in {"undefined", "null"} THEN b ELSE a

\* No binding has been constructed.
NoBinding ==
  [made |-> FALSE, key |-> <<>>, dflt |-> "undefined", cell |-> "undefined",
   pending |-> FALSE, watching |-> FALSE]

\* The engine of a binding is private to it: nothing can register a listener.
Bound(opt, b, st) == [binding |-> b, store |-> st]

\* this.state.value = v. The cell is a ref watched with { deep: true } and
\* the default flush: a change of the cell, while the watcher is active,
\* queues one run of the watcher's callback (runs that are already queued
\* are not queued twice); assigning the value the cell holds queues nothing.
assign(b, v) ==
  [b EXCEPT !.cell = v, !.pending = @ \/ (b.watching /\ v # b.cell)]

\* new StorageState(key, defaultValue, options): the engine's constructor
\* sweeps, the cell starts from the stored value or the default, and the
\* watcher starts. No callback is queued by the construction.
StorageState(opt, key, defaultValue, st, t) ==
  LET swept == clearExpired(opt, NoListeners, st, t).store
      storedValue == get(opt, NoListeners, key, defaultValue, swept, t)
  IN Bound(opt,
           [made |-> TRUE, key |-> key, dflt |-> defaultValue,
            cell |-> CoalesceValue(storedValue.ret, defaultValue),
            pending |-> FALSE, watching |-> TRUE],
           storedValue.store)

\* setValue(value, options): the cell first, then the write with the options.
setValue(opt, b, value, o, st, t, p) ==
  Bound(opt, assign(b, value), set(opt, NoListeners, b.key, value, o, st, t, t, p).store)

\* remove() of StorageState, removeValue() of useStorage: the entry first,
\* then the cell back to the default.
removeValue(opt, b, st, t) ==
  Bound(opt, assign(b, b.dflt), remove(opt, NoListeners, b.key, st, t).store)

\* reset()
reset(opt, b, st) == Bound(opt, assign(b, b.dflt), st)

\* refresh(): the cell from the stored value or the default.
refresh(opt, b, st, t) ==
  LET storedValue == get(opt, NoListeners, b.key, b.dflt, st, t)
  IN Bound(opt, assign(b, CoalesceValue(storedValue.ret, b.dflt)), storedValue.store)

\* Mutant of destroy: the watcher is left running.
destroy_KeepsWatcher(opt, b, st) == Bound(opt, b, st)

\* destroy(): stops the watcher when there is one, and forgets it. A run of
\* the callback that is queued stays queued; the scheduler drops it because
\* its watcher is not active.
destroy(opt, b, st) == Bound(opt, [b EXCEPT !.watching = FALSE], st)

\* The scheduler runs the queued callback of the watcher, if the watcher is
\* still active, with the value the cell holds now:
\* (newValue) => { this.storage.set(this.key, newValue) }.
watchCallback(opt, b, st, t, p) ==
  Bound(opt, [b EXCEPT !.pending = FALSE],
        IF b.watching
          THEN set(opt, NoListeners, b.key, b.cell, NoArg, st, t, t, p).store
          ELSE st)

\* ------------------------------------------------------------- the calls

\* The record of a call: the method, the engine, the arguments (for on and
\* off: key holds the listener, val the event type), and how many entries of
\* the Storage object it deleted.
Call(op, e, key, val, arg, removed) ==
  [op |-> op, e |-> e, key |-> key, val |-> val, arg |-> arg,
   removed |-> removed]

Idle == Call("none", "-", <<>>, "undefined", NoArg, 0)

Engines == DOMAIN options

\* What one call of an engine method that returns r leaves behind.
Effects(op, e, key, val, arg, r) ==
  /\ store' = r.store
  /\ ret' = r.ret
  /\ events' = r.events
  /\ last' = Call(op, e, key, val, arg,
                  IF Len(r.store) < Len(store) THEN Len(store) - Len(r.store) ELSE 0)
  /\ UNCHANGED <<broken, options, listeners, scope, binding>>

\* One call of an engine method that returns r, the clock standing still.
Returns(op, e, key, val, arg, r) ==
  /\ Effects(op, e, key, val, arg, r)
  /\ UNCHANGED now

\* The places the browser may give a key that setItem adds.
Places(st, fk) == IF IndexOf(st, fk) # 0 \/ Len(st) >= Quota THEN {0} ELSE 0..Len(st)

\* set(key, value, options), the clock advancing by dt between its two reads.
Set(e, key, value, o, p, dt) ==
  /\ p \in Places(store, getFullKey(options[e], key))
  /\ now + dt <= MaxTime
  /\ now' = now + dt
  /\ Effects("set", e, key, value, o,
             set(options[e], listeners[e], key, value, o, store, now, now + dt, p))

Get(e, key, defaultValue) ==
  Returns("get", e, key, defaultValue, NoArg,
          get(options[e], listeners[e], key, defaultValue, store, now))

Has(e, key) ==
  Returns("has", e, key, "undefined", NoArg, has(options[e], listeners[e], key, store, now))

Remove(e, key) ==
  Returns("remove", e, key, "undefined", NoArg,
          remove(options[e], listeners[e], key, store, now))

Clear(e) ==
  Returns("clear", e, <<>>, "undefined", NoArg, clear(options[e], listeners[e], store, now))

ClearExpired(e) ==
  Returns("clearExpired", e, <<>>, "undefined", NoArg,
          clearExpired(options[e], listeners[e], store, now))

Keys(e) ==
  Returns("keys", e, <<>>, "undefined", NoArg, keys(options[e], listeners[e], store, now))

GetStats(e) ==
  Returns("getStats", e, <<>>, "undefined", NoArg,
          getStats(options[e], listeners[e], store, now))

On(e, type, listener) ==
  /\ listeners' = [listeners EXCEPT ![e] = on(@, type, listener)]
  /\ last' = Call("on", e, <<listener>>, type, NoArg, 0)
  /\ ret' = "void"
  /\ events' = <<>>
  /\ UNCHANGED <<store, broken, now, options, scope, binding>>

Off(e, type, listener) ==
  /\ listeners' = [listeners EXCEPT ![e] = off(@, type, listener)]
  /\ last' = Call("off", e, <<listener>>, type, NoArg, 0)
  /\ ret' = "void"
  /\ events' = <<>>
  /\ UNCHANGED <<store, broken, now, options, scope, binding>>

\* new WebStorage(options) again (a page reload): the registry starts empty
\* and the constructor sweeps the expired entries.
Construct(e) ==
  /\ store' = clearExpired(options[e], NoListeners, store, now).store
  /\ listeners' = [listeners EXCEPT ![e] = NoListeners]
  /\ last' = Call("new", e, <<>>, "undefined", NoArg,
                  clearExpired(options[e], NoListeners, store, now).ret)
  /\ ret' = "void"
  /\ events' = <<>>
  /\ UNCHANGED <<broken, now, options, scope, binding>>

\* Foreign code of the page writes the shared Storage object directly.
RawSetItem(fk, text, p) ==
  /\ p \in Places(store, fk)
  /\ setItem(store, fk, text, p).ok
  /\ store' = setItem(store, fk, text, p).store
  /\ last' = Call("raw", "-", fk, "undefined", NoArg, 0)
  /\ ret' = "void"
  /\ events' = <<>>
  /\ UNCHANGED <<broken, now, options, listeners, scope, binding>>

\* The Storage object starts or stops throwing from one of its members
\* (one at a time).
Fault(m) ==
  /\ broken \subseteq {m}
  /\ broken' = IF m \in broken THEN {} ELSE {m}
  /\ last' = Idle
  /\ ret' = "void"
  /\ events' = <<>>
  /\ UNCHANGED <<store, now, options, listeners, scope, binding>>

\* The clock advances between two calls.
Tick ==
  /\ now < MaxTime
  /\ now' = now + 1
  /\ last' = Idle
  /\ ret' = "void"
  /\ events' = <<>>
  /\ UNCHANGED <<store, broken, options, listeners, scope, binding>>

\* One call of a method of the binding, or one run of the scheduler, that
\* leaves r = [binding, store] behind.
BindingStep(op, val, arg, r) ==
  /\ binding' = r.binding
  /\ store' = r.store
  /\ last' = Call(op, "A", r.binding.key, val, arg,
                  IF Len(r.store) < Len(store) THEN Len(store) - Len(r.store) ELSE 0)
  /\ ret' = "void"
  /\ events' = <<>>
  /\ UNCHANGED <<broken, now, options, listeners, scope>>

\* The page (re)loads and constructs the binding.
Bind(key, defaultValue) ==
  BindingStep("bind", defaultValue, NoArg,
              StorageState(options["A"], key, defaultValue, store, now))

\* state.value = v, or an in-place change of the cell that makes it v.
Assign(v) ==
  /\ binding.made
  /\ BindingStep("assign", v, NoArg, Bound(options["A"], assign(binding, v), store))

SetValue(v, o, p) ==
  /\ binding.made
  /\ p \in Places(store, getFullKey(options["A"], binding.key))
  /\ BindingStep("setValue", v, o, setValue(options["A"], binding, v, o, store, now, p))

RemoveValue ==
  /\ binding.made
  /\ BindingStep("removeValue", "undefined", NoArg,
                 removeValue(options["A"], binding, store, now))

Reset ==
  /\ binding.made
  /\ BindingStep("reset", "undefined", NoArg, reset(options["A"], binding, store))

Refresh ==
  /\ binding.made
  /\ BindingStep("refresh", "undefined", NoArg, refresh(options["A"], binding, store, now))

Destroy ==
  /\ binding.made
  /\ BindingStep("destroy", "undefined", NoArg, destroy(options["A"], binding, store))

\* The scheduler flushes its queue: every pending callback has run.
Flush(p) ==
  /\ binding.pending
  /\ p \in Places(store, getFullKey(options["A"], binding.key))
  /\ BindingStep("flush", binding.cell, NoArg,
                 watchCallback(options["A"], binding, store, now, p))

SetOptions(expires, enc) == [expires |-> expires, encrypt |-> enc]

\* Texts foreign code may leave: a text that is no JSON, the empty string,
\* and the JSON text {"value":1}, an object without `expires`.
Junk == [kind |-> "junk", ekey |-> "", doc |-> NoDoc]
Empty == [kind |-> "empty", ekey |-> "", doc |-> NoDoc]
ValueOnly ==
  [kind |-> "json", ekey |-> "",
   doc |-> [shape |-> "object", value |-> "n1", expires |-> Undef, created |-> Undef]]

\* The JSON text {"value":2,"expires":null,"created":0}, not obfuscated.
PlainEnvelope ==
  [kind |-> "json", ekey |-> "",
   doc |-> [shape |-> "object", value |-> "n2", expires |-> Null, created |-> Num(0)]]

\* The arguments the callers draw from, by universe. "engine": one engine,
\* two keys, foreign code writing under the engine's prefix. "shared": two
\* engines over one Storage object, foreign code writing a key of its own.
\* "events": one engine with listeners of every event type. "defaults": one
\* engine with or without a default duration, per-call durations and the
\* per-call obfuscation override. "listeners": one engine, a listener that
\* returns and one that throws, registered for two event types. "faults":
\* one engine over a Storage object whose members may throw. "obfuscation":
\* one engine, the per-call obfuscation override with both values, foreign
\* code leaving a plain envelope under the engine's prefix. "twins": two
\* engines with the same prefix writing two values under one key.
\* "reentrant": one engine, a listener that returns and one that calls back
\* into the engine, registered for `remove` and `expired`.
\* "binding": one binding over one key, two values and a default that differs
\* from both.
Universe ==
  [engine |->
     [keys |-> {<<"k">>, <<"j">>},
      values |-> {"n1", "undefined"},
      setOptions |-> {SetOptions(Undef, "undefined"), SetOptions(Num(0), "undefined"),
                      SetOptions(Num(1), "undefined")},
      defaults |-> {"undefined", "dflt"},
      types |-> {"remove", "expired"},
      listenerIds |-> {"L1"},
      drift |-> {0},
      rawKeys |-> {<<"a", "-", "k">>},
      rawTexts |-> {Junk, Empty, ValueOnly}],
   shared |->
     [keys |-> {<<"k">>},
      values |-> {"n1"},
      setOptions |-> {SetOptions(Undef, "undefined"), SetOptions(Num(1), "undefined")},
      defaults |-> {"undefined"},
      types |-> {"clear"},
      listenerIds |-> {"L1"},
      drift |-> {0},
      rawKeys |-> {<<"z", "z">>},
      rawTexts |-> {Junk}],
   events |->
     [keys |-> {<<"k">>},
      values |-> {"n1", "undefined"},
      setOptions |-> {SetOptions(Undef, "undefined"), SetOptions(Num(1), "undefined")},
      defaults |-> {"undefined"},
      types |-> EventTypes,
      listenerIds |-> {"L1"},
      drift |-> {0},
      rawKeys |-> {<<"a", "-", "k">>, <<"a", "-", "x">>},
      rawTexts |-> {Junk}],
   defaults |->
     [keys |-> {<<"k">>},
      values |-> {"n1"},
      setOptions |-> {SetOptions(Undef, "undefined"), SetOptions(Num(0), "undefined"),
                      SetOptions(Num(1), "undefined"), SetOptions(Num(-1), "undefined"),
                      SetOptions(Num(1), "true")},
      defaults |-> {"undefined"},
      types |-> {"expired"},
      listenerIds |-> {"L1"},
      drift |-> {0, 1, 2},
      rawKeys |-> {<<"z">>},
      rawTexts |-> {Junk}],
   listeners |->
     [keys |-> {<<"k">>},
      values |-> {"n1"},
      setOptions |-> {SetOptions(Undef, "undefined"), SetOptions(Num(1), "undefined")},
      defaults |-> {"undefined"},
      types |-> {"set", "remove"},
      listenerIds |-> {"L1", "X1"},
      drift |-> {0},
      rawKeys |-> {<<"z">>},
      rawTexts |-> {Junk}],
   faults |->
     [keys |-> {<<"k">>},
      values |-> {"n1"},
      setOptions |-> {SetOptions(Undef, "undefined"), SetOptions(Num(1), "undefined")},
      defaults |-> {"undefined", "dflt"},
      types |-> {"remove", "clear"},
      listenerIds |-> {"L1"},
      drift |-> {0},
      rawKeys |-> {<<"z">>},
      rawTexts |-> {Junk}],
   obfuscation |->
     [keys |-> {<<"k">>},
      values |-> {"n1"},
      setOptions |-> {SetOptions(Undef, "undefined"), SetOptions(Undef, "true"),
                      SetOptions(Undef, "false"), SetOptions(Num(1), "true")},
      defaults |-> {"undefined", "dflt"},
      types |-> {"get"},
      listenerIds |-> {"L1"},
      drift |-> {0},
      rawKeys |-> {<<"a", "-", "k">>},
      rawTexts |-> {Junk, PlainEnvelope}],
   twins |->
     [keys |-> {<<"k">>},
      values |-> {"n1", "n2"},
      setOptions |-> {SetOptions(Undef, "undefined"), SetOptions(Num(1), "undefined")},
      defaults |-> {"undefined"},
      types |-> {"set"},
      listenerIds |-> {"L1"},
      drift |-> {0},
      rawKeys |-> {<<"z">>},
      rawTexts |-> {Junk}],
   reentrant |->
     [keys |-> {<<"k">>},
      values |-> {"n1"},
      setOptions |-> {SetOptions(Undef, "undefined"), SetOptions(Num(1), "undefined")},
      defaults |-> {"undefined", "dflt"},
      types |-> {"remove", "expired"},
      listenerIds |-> {"L1", "R1"},
      drift |-> {0},
      rawKeys |-> {<<"z">>},
      rawTexts |-> {Junk}],
   binding |->
     [keys |-> {<<"k">>},
      values |-> {"n1", "n2"},
      setOptions |-> {SetOptions(Undef, "undefined"), SetOptions(Num(1), "undefined")},
      defaults |-> {"dflt"},
      types |-> {"set"},
      listenerIds |-> {"L1"},
      drift |-> {0},
      rawKeys |-> {<<"z">>},
      rawTexts |-> {Junk}]]

U == Universe[scope]

Next ==
  \/ \E e \in Engines, key \in U.keys, value \in U.values, o \in U.setOptions,
        p \in 0..Quota, dt \in U.drift : Set(e, key, value, o, p, dt)
  \/ \E e \in Engines, key \in U.keys, d \in U.defaults : Get(e, key, d)
  \/ \E e \in Engines, key \in U.keys : Has(e, key)
  \/ \E e \in Engines, key \in U.keys : Remove(e, key)
  \/ \E e \in Engines : Clear(e)
  \/ \E e \in Engines : ClearExpired(e)
  \/ \E e \in Engines : Keys(e)
  \/ \E e \in Engines : GetStats(e)
  \/ \E e \in Engines, type \in U.types, l \in U.listenerIds : On(e, type, l)
  \/ \E e \in Engines, type \in U.types, l \in U.listenerIds : Off(e, type, l)
  \/ \E e \in Engines : Construct(e)
  \/ \E fk \in U.rawKeys, text \in U.rawTexts, p \in 0..Quota : RawSetItem(fk, text, p)
  \/ Tick

\* ------------------------------------------------------- specifications

\* The defaults of the constructor, with a prefix.
Options(prefix, defaultExpires, enc) ==
  [type |-> "localStorage", defaultExpires |-> Num(defaultExpires), prefix |-> prefix,
   encrypt |-> enc, encryptKey |-> "vue-web-storage"]

InitWith(opts, sc) ==
  /\ store = <<>>
  /\ broken = {}
  /\ now = 0
  /\ options = opts
  /\ listeners = [e \in DOMAIN opts |-> NoListeners]
  /\ binding = NoBinding
  /\ last = Idle
  /\ ret = "void"
  /\ events = <<>>
  /\ scope = sc

\* One engine with prefix "a-".
Init == InitWith([A |-> Options(<<"a", "-">>, 0, FALSE)], "engine")

Spec == Init /\ [][Next]_vars

\* Two engines over the same Storage object: A with prefix "a-", B with
\* prefix "b-" or with prefix "a-b-", which begins with A's.
InitShared ==
  \E pb \in {<<"b", "-">>, <<"a", "-", "b", "-">>} :
    InitWith([A |-> Options(<<"a", "-">>, 0, FALSE), B |-> Options(pb, 0, FALSE)], "shared")

SpecShared == InitShared /\ [][Next]_vars

\* One engine with prefix "a-", under the "events" universe.
InitEvents == InitWith([A |-> Options(<<"a", "-">>, 0, FALSE)], "events")

SpecEvents == InitEvents /\ [][Next]_vars

\* One engine with prefix "a-", configured without a default duration or
\* with the default duration DefaultDuration, under the "defaults" universe.
InitDefaults ==
  \E d \in {0, DefaultDuration} :
    InitWith([A |-> Options(<<"a", "-">>, d, FALSE)], "defaults")

SpecDefaults == InitDefaults /\ [][Next]_vars

\* One engine with prefix "a-", under the "listeners" universe.
InitListeners == InitWith([A |-> Options(<<"a", "-">>, 0, FALSE)], "listeners")

SpecListeners == InitListeners /\ [][Next]_vars

\* The calls, and the Storage object starting or ceasing to throw.
NextFaults ==
  \/ Next
  \/ \E m \in StorageMethods : Fault(m)

\* One engine with prefix "a-", under the "faults" universe.
InitFaults == InitWith([A |-> Options(<<"a", "-">>, 0, FALSE)], "faults")

SpecFaults == InitFaults /\ [][NextFaults]_vars

\* One engine with prefix "a-", configured with or without obfuscation,
\* under the "obfuscation" universe.
InitObfuscation ==
  \E enc \in BOOLEAN : InitWith([A |-> Options(<<"a", "-">>, 0, enc)], "obfuscation")

SpecObfuscation == InitObfuscation /\ [][Next]_vars

\* Two engines with the same prefix "a-" and no obfuscation over the same
\* Storage object (two instances, or two tabs of one origin); B has a
\* default duration.
InitTwins ==
  InitWith([A |-> Options(<<"a", "-">>, 0, FALSE),
            B |-> Options(<<"a", "-">>, DefaultDuration, FALSE)], "twins")

SpecTwins == InitTwins /\ [][Next]_vars

\* One engine with prefix "a-", under the "reentrant" universe.
InitReentrant == InitWith([A |-> Options(<<"a", "-">>, 0, FALSE)], "reentrant")

SpecReentrant == InitReentrant /\ [][Next]_vars

\* The page with a binding: its methods, assignments to its cell, the
\* scheduler, the clock.
NextBinding ==
  \/ \E key \in U.keys, d \in U.defaults : Bind(key, d)
  \/ \E v \in U.values : Assign(v)
  \/ \E v \in U.values, o \in U.setOptions, p \in 0..Quota : SetValue(v, o, p)
  \/ RemoveValue
  \/ Reset
  \/ Refresh
  \/ Destroy
  \/ \E p \in 0..Quota : Flush(p)
  \/ Tick

\* One binding whose engine has prefix "a-" and no default duration or the
\* default duration DefaultDuration, under the "binding" universe.
InitBinding ==
  \E d \in {0, DefaultDuration} :
    InitWith([A |-> Options(<<"a", "-">>, d, FALSE)], "binding")

SpecBinding == InitBinding /\ [][NextBinding]_vars

\* The strings of up to n characters of the set cs.
StringsOf(cs, n) == UNION {[1..m -> cs] : m \in 0..n}

\* The characters of the strings to store: a digit, a Latin-1 letter (e
\* acute) and a character above 255 (U+4E2D); those of the keys: u, v.
ValueChars == {49, 233, 20013}
KeyChars == {117, 118}

\* serialize(x, true, key), called on its own.
Serialize(x, key) ==
  /\ last' = Call("serialize", "-", x, key, NoArg, 0)
  /\ ret' = serializeText(x, TRUE, key)
  /\ events' = <<>>
  /\ UNCHANGED <<store, broken, now, options, listeners, scope, binding>>

\* deserialize(serialize(x, true, key), true, key); ok false when either
\* throws or yields null.
RoundTrip(x, key) ==
  /\ last' = Call("roundtrip", "-", x, key, NoArg, 0)
  /\ ret' = IF serializeText(x, TRUE, key).ok
              THEN deserializeText(serializeText(x, TRUE, key).text, TRUE, key)
              ELSE [ok |-> FALSE, value |-> <<>>]
  /\ events' = <<>>
  /\ UNCHANGED <<store, broken, now, options, listeners, scope, binding>>

\* deserialize(JSON.stringify(x), true, key): a text that was not obfuscated.
DeserializePlain(x, key) ==
  /\ last' = Call("deserialize", "-", x, key, NoArg, 0)
  /\ ret' = deserializeText(StringifyString(x), TRUE, key)
  /\ events' = <<>>
  /\ UNCHANGED <<store, broken, now, options, listeners, scope, binding>>

NextCodec ==
  \E x \in StringsOf(ValueChars, MaxChars), key \in StringsOf(KeyChars, 2) \ {<<>>} :
    \/ Serialize(x, key)
    \/ RoundTrip(x, key)
    \/ DeserializePlain(x, key)

\* The functions of types.ts on their own, applied to strings.
InitCodec == InitWith([A |-> Options(<<"a", "-">>, 0, TRUE)], "obfuscation")

SpecCodec == InitCodec /\ [][NextCodec]_vars

\* ------------------------------------------------------------- claims

\* The key s begins with the prefix p (stated apart from the code's test).
HasPrefix(s, p) == \E n \in 0..Len(s) : SubSeq(s, 1, n) = p

\* The text under logical key k of engine e, in store st.
Entry(st, e, k) == getItem(st, getFullKey(options[e], k))

\* A text in the form engine e writes with its configured settings: the
\* (obfuscated, when configured) JSON text of an object.
Written(e, text) ==
  /\ text.kind = (IF options[e].encrypt THEN "b64" ELSE "json")
  /\ options[e].encrypt => text.ekey = options[e].encryptKey
  /\ text.doc.shape = "object"

\* The events of one type among those delivered.
EventsOf(evs, type) == SelectSeq(evs, LAMBDA ev : ev.type = type)

\* A value the stored text can hold: a JSON value.
Storable(v) == v \in {"null", "n1", "n2", "iso1"}

\* The step is a call of method op.
IsCall(op) == last'.op = op

\* get honours a stored expiry x: up to and including x it returns the stored
\* value and changes nothing; after x it returns the default/null and the
\* entry is gone.
GetHonoursExpiry ==
  IsCall("get") =>
    LET text == Entry(store, last'.e, last'.key)
    IN (Written(last'.e, text) /\ text.doc.value # "undefined" /\ text.doc.expires.k = "num") =>
         IF now <= text.doc.expires.n
           THEN ret' = text.doc.value /\ store' = store
           ELSE /\ ret' = CoalesceNull(last'.val)
                /\ Entry(store', last'.e, last'.key) = NoText

\* A successful set with a duration d in ds writes an envelope expiring at
\* (time of the call) + d.
SetWritesExpiry(ds) ==
  (IsCall("set") /\ ret' = TRUE /\ last'.arg.expires.k = "num"
     /\ last'.arg.expires.n \in ds) =>
    LET text == Entry(store', last'.e, last'.key)
    IN Written(last'.e, text) /\ text.doc.expires = Num(now + last'.arg.expires.n)

\* C1 (as amended): for a duration d > 0, set(k, v, {expires: d}) at time t
\* writes the expiry t + d; get(k) returns v at every time up to and including
\* t + d, and after t + d it returns the default/null and the entry is deleted.
\* (A duration of 0 means the item never expires.)
C1_ExpirationBoundary ==
  [][SetWritesExpiry(1..(MaxTime + 1)) /\ GetHonoursExpiry]_vars

\* C1 as claimed: the same for every duration d, 0 included.
C1_AsClaimed ==
  [][SetWritesExpiry(0..(MaxTime + 1)) /\ GetHonoursExpiry]_vars

\* C1 witness: a get after the expiry time has just deleted the entry and
\* returned the caller's default.
C1_Witness ==
  /\ last.op = "get" /\ last.removed = 1 /\ ret = "dflt"
  /\ Entry(store, last.e, last.key) = NoText

OwnKeys(f) == {getFullKey(options[f], k) : k \in U.keys}

\* The places of st whose key starts with engine e's prefix.
Prefixed(e, st) == {i \in 1..Len(st) : HasPrefix(st[i].key, options[e].prefix)}

\* The entries of st whose key does not start with engine e's prefix, in order.
Outside(e, st) == SelectSeq(st, LAMBDA r : ~HasPrefix(r.key, options[e].prefix))

\* This step, a call on engine e, neither lists, counts nor deletes an entry
\* written by engine f.
Isolated(e, f) ==
  /\ (IsCall("keys") /\ last'.e = e) =>
       \A i \in 1..Len(ret') : getFullKey(options[e], ret'[i]) \notin OwnKeys(f)
  /\ (IsCall("getStats") /\ last'.e = e) =>
       ret'.total = Cardinality({i \in Prefixed(e, store) : store[i].key \notin OwnKeys(f)})
  /\ (IsCall("clear") /\ last'.e = e) =>
       \A fk \in OwnKeys(f) : getItem(store', fk) = getItem(store, fk)

\* C3: for any two engines with distinct prefixes on the same Storage object,
\* keys() and getStats() of one never list or count an entry written by the
\* other, and clear() of one never deletes an entry written by the other.
C3_PrefixIsolation ==
  [][\A e \in Engines, f \in Engines :
       options[e].prefix # options[f].prefix => Isolated(e, f)]_vars

\* C4: clear() of an engine removes every entry whose full key starts with
\* its prefix and leaves every other entry of the Storage object unchanged;
\* with A on "a-" and B on "b-", B.has(k2) is what it was before A.clear().
C4_ClearScoping ==
  [][IsCall("clear") =>
       /\ store' = Outside(last'.e, store)
       /\ ret' = TRUE
       /\ \A f \in Engines, k \in U.keys :
            (last'.e = "A" /\ f = "B" /\ options[f].prefix = <<"b", "-">>) =>
              has(options[f], listeners[f], k, store', now).ret
                = has(options[f], listeners[f], k, store, now).ret]_vars

\* C4 witness: A.clear() has deleted A's entry and B.has(k) is still true.
C4_Witness ==
  /\ last.op = "clear" /\ last.e = "A" /\ last.removed = 1
  /\ options["B"].prefix = <<"b", "-">>
  /\ has(options["B"], listeners["B"], <<"k">>, store, now).ret

\* C5: no call on an engine (construction included) writes, deletes or
\* reorders an entry whose full key does not start with the engine's prefix,
\* and keys() and getStats() report only entries under the prefix.
C5_ForeignUntouched ==
  [][\A e \in Engines :
       last'.e = e =>
         /\ Outside(e, store') = Outside(e, store)
         /\ IsCall("keys") =>
              \A i \in 1..Len(ret') :
                getItem(store, getFullKey(options[e], ret'[i])) # NoText
         /\ IsCall("getStats") => ret'.total <= Cardinality(Prefixed(e, store))]_vars

\* C5 witness: a sweep of one engine has deleted an expired entry while an
\* expired entry of the other engine, outside its prefix, is still there.
C5_Witness ==
  /\ last.op = "clearExpired" /\ last.removed = 1
  /\ \E i \in 1..Len(store) :
       /\ ~HasPrefix(store[i].key, options[last.e].prefix)
       /\ store[i].text.doc.expires.k = "num"
       /\ now > store[i].text.doc.expires.n

\* The text is an envelope of engine e whose expiry has passed at time t.
ExpiredAt(e, text, t) ==
  /\ Written(e, text)
  /\ text.doc.expires.k = "num"
  /\ t > text.doc.expires.n

\* The one `expired` event get delivers for key k, and the one a sweep delivers.
ExpiredEvent(e, key, seen) ==
  [type |-> "expired", key |-> key, value |-> NoValue, timestamp |-> now,
   to |-> listeners[e]["expired"], caught |-> <<>>, seen |-> seen]

\* C6 (as amended): an `expired` listener receives exactly one event carrying
\* k when get(k) finds the item (an envelope with a value) expired; has(k) and
\* keys() deliver no `expired` event; clearExpired delivers one `expired`
\* event without a key when it deleted at least one expired entry; no
\* `expired` event is delivered by any other call, and so none before expiry.
C6_ExpiredEvents ==
  [][LET e == last'.e
         exp == EventsOf(events', "expired")
     IN CASE IsCall("get") ->
               LET text == Entry(store, e, last'.key)
               IN IF /\ ExpiredAt(e, text, now) /\ text.doc.value # "undefined"
                     /\ listeners[e]["expired"] # <<>>
                    THEN exp = <<ExpiredEvent(e, {last'.key}, store')>>
                    ELSE exp = <<>>
          [] IsCall("clearExpired") ->
               IF /\ \E i \in 1..Len(store) :
                        /\ HasPrefix(store[i].key, options[e].prefix)
                        /\ ExpiredAt(e, store[i].text, now)
                  /\ listeners[e]["expired"] # <<>>
                 THEN exp = <<ExpiredEvent(e, NoKey, store')>>
                 ELSE exp = <<>>
          [] OTHER -> exp = <<>>]_vars

\* C6 as claimed: the first get(k), has(k) or sweep that meets the expired
\* item delivers exactly one `expired` event carrying k.
C6_AsClaimed ==
  [][\A k \in U.keys :
       (/\ IsCall("get") \/ IsCall("has") \/ IsCall("clearExpired")
        /\ last'.op \in {"get", "has"} => last'.key = k
        /\ ExpiredAt(last'.e, Entry(store, last'.e, k), now)
        /\ Entry(store, last'.e, k).doc.value # "undefined"
        /\ listeners[last'.e]["expired"] # <<>>)
       => Len(SelectSeq(EventsOf(events', "expired"), LAMBDA ev : ev.key = {k})) = 1]_vars

\* C6 witness: get has just delivered the `expired` event of its key.
C6_Witness ==
  /\ last.op = "get"
  /\ events # <<>>
  /\ events[Len(events)] = ExpiredEvent(last.e, {last.key}, store)

\* What get does with an expired entry: the entry is deleted, the `expired`
\* event carrying k is emitted (delivered when a listener is registered) and
\* the default, or null, is returned.
GetEvicts ==
  /\ Entry(store', last'.e, last'.key) = NoText
  /\ ret' = CoalesceNull(last'.val)
  /\ listeners[last'.e]["expired"] # <<>> =>
       /\ events' # <<>>
       /\ events'[Len(events')] = ExpiredEvent(last'.e, {last'.key}, store')

\* C7 (as amended): get(k) on an entry that is present, decodable, carries a
\* `value` field and is expired deletes it, emits `expired` with k and returns
\* the default/null.
C7_GetExpired ==
  [][(/\ IsCall("get")
      /\ ExpiredAt(last'.e, Entry(store, last'.e, last'.key), now)
      /\ Entry(store, last'.e, last'.key).doc.value # "undefined")
     => GetEvicts]_vars

\* C7 as claimed: the same for every present, decodable, expired entry.
C7_AsClaimed ==
  [][(/\ IsCall("get")
      /\ ExpiredAt(last'.e, Entry(store, last'.e, last'.key), now))
     => GetEvicts]_vars

\* C7 witness: with an `expired` listener registered, get returned null for
\* an entry it deleted.
C7_Witness ==
  /\ last.op = "get" /\ last.removed = 1 /\ ret = "null"
  /\ listeners[last.e]["expired"] # <<>>
  /\ Len(EventsOf(events, "expired")) = 1

\* C8 as claimed: has(k) delivers no event of any kind.
C8_HasSilent == last.op = "has" => events = <<>>

\* An envelope as the engine defines it: an object with `value`, `expires`
\* and `created`; an entry without `value` is structurally malformed.
StructurallyValid(doc) ==
  /\ doc.shape = "object"
  /\ doc.value # "undefined"
  /\ doc.expires.k # "undefined"

\* C9 as claimed: has(k) returns true only for an entry that is present,
\* decodable, structurally valid and not expired, false otherwise, and an
\* entry found expired is gone when it returns.
C9_HasTrueOnlyIfValid ==
  [][IsCall("has") =>
       LET text == Entry(store, last'.e, last'.key)
       IN /\ ret' = TRUE =>
               /\ Written(last'.e, text)
               /\ StructurallyValid(text.doc)
               /\ ~ExpiredAt(last'.e, text, now)
          /\ ExpiredAt(last'.e, text, now) =>
               ret' = FALSE /\ Entry(store', last'.e, last'.key) = NoText]_vars

\* The logical keys of engine e whose entry exists in st and for which has
\* is true.
LiveKeys(e, st) ==
  {substring(st[i].key, Len(options[e].prefix)) :
     i \in {j \in 1..Len(st) :
              /\ HasPrefix(st[j].key, options[e].prefix)
              /\ has(options[e], listeners[e],
                     substring(st[j].key, Len(options[e].prefix)), st, now).ret}}

\* C10 as claimed: keys() returns exactly the logical keys whose entry exists
\* and for which has is true at the time of the call.
C10_KeysExact ==
  [][IsCall("keys") =>
       {ret'[i] : i \in 1..Len(ret')} = LiveKeys(last'.e, store)]_vars

\* C11: one getStats() call returns total = expired + valid, whatever the
\* Storage object holds (undecodable entries, entries without `expires`,
\* expired entries).
C11_StatsInvariant == last.op = "getStats" => ret.total = ret.expired + ret.valid

\* C11 witness: getStats has counted an expired entry next to an entry that
\* is no envelope.
C11_Witness ==
  /\ last.op = "getStats"
  /\ ret.total = 2 /\ ret.expired = 1 /\ ret.valid = 1
  /\ \E i \in 1..Len(store) : store[i].text \in {Junk, ValueOnly}

\* The places of st under engine e's prefix that hold a non-empty text.
Counted(e, st) == {i \in Prefixed(e, st) : st[i].text.kind # "empty"}

\* getStats classifies the places in `counted`: expired are those whose
\* decoded envelope has passed its expiry, valid is every other one.
Classifies(counted) ==
  IsCall("getStats") =>
    LET e == last'.e
        past == {i \in counted : ExpiredAt(e, store[i].text, now)}
    IN /\ ret'.total = Cardinality(counted)
       /\ ret'.expired = Cardinality(past)
       /\ ret'.valid = Cardinality(counted \ past)

\* C12 (as amended): total is the number of prefixed entries that hold a
\* non-empty text, expired the number of those whose decoded envelope has
\* passed its expiry, valid every other one (live, or not decodable as an
\* envelope).
C12_StatsClassification == [][Classifies(Counted(last'.e, store))]_vars

\* C12 as claimed: total is the number of prefixed entries.
C12_AsClaimed == [][Classifies(Prefixed(last'.e, store))]_vars

\* C12 witness: the one item written with a duration is counted expired,
\* after the clock passed its expiry.
C12_Witness ==
  /\ last.op = "getStats"
  /\ ret.total = 1 /\ ret.valid = 0 /\ ret.expired = 1
  /\ Len(store) = 1
  /\ store[1].text.doc.value = "n1"
  /\ store[1].text.doc.expires = Num(store[1].text.doc.created.n + 1)

\* C13: when the underlying write fails (the Storage object is full), set
\* returns false, delivers no event and leaves the Storage object, the entry
\* previously stored for k included, as it was.
C13_FailedSet ==
  [][IsCall("set") =>
       /\ (Entry(store, last'.e, last'.key) = NoText /\ Len(store) >= Quota) => ret' = FALSE
       /\ ret' = FALSE => (store' = store /\ events' = <<>>)]_vars

\* C13 witness: with a `set` listener registered, set has failed on a key
\* that holds an entry.
C13_Witness ==
  /\ last.op = "set" /\ ret = FALSE
  /\ listeners[last.e]["set"] # <<>>
  /\ Entry(store, last.e, last.key) # NoText

\* The text is present but is no envelope get accepts: it does not decode to
\* an object, or the object has no `value` field.
Malformed(e, text) ==
  /\ text # NoText
  /\ ~(Written(e, text) /\ text.doc.value # "undefined")

\* C14: get(k) on an entry that is present but undecodable or without a
\* `value` field returns the default/null as for an absent key, deletes
\* nothing and delivers no event.
C14_GetMalformed ==
  [][(IsCall("get") /\ Malformed(last'.e, Entry(store, last'.e, last'.key)))
     => (ret' = CoalesceNull(last'.val) /\ store' = store /\ events' = <<>>)]_vars

\* C14 witness: with every kind of listener registered, get has returned
\* null for a key that holds a junk text.
C14_Witness ==
  /\ last.op = "get" /\ ret = "null"
  /\ Entry(store, last.e, last.key) = Junk
  /\ \A type \in EventTypes : listeners[last.e][type] # <<>>

\* The one `remove` event a call on engine e delivers for key k.
RemoveEvent(e, key, seen) ==
  [type |-> "remove", key |-> {key}, value |-> NoValue, timestamp |-> now,
   to |-> listeners[e]["remove"], caught |-> <<>>, seen |-> seen]

\* C15: remove(k) returns true and emits exactly one `remove` event carrying
\* k (delivered when a `remove` listener is registered) whether or not the
\* entry existed; afterwards the entry is absent, has(k) is false, get(k)
\* returns the default, and every other entry is as it was.
C15_Remove ==
  [][IsCall("remove") =>
       LET e == last'.e
           k == last'.key
       IN /\ ret' = TRUE
          /\ events' = IF listeners[e]["remove"] # <<>> THEN <<RemoveEvent(e, k, store')>> ELSE <<>>
          /\ Entry(store', e, k) = NoText
          /\ store' = SelectSeq(store, LAMBDA r : r.key # getFullKey(options[e], k))
          /\ ~has(options[e], listeners[e], k, store', now).ret
          /\ get(options[e], listeners[e], k, "dflt", store', now).ret = "dflt"]_vars

\* C15 witness: remove of a key that held no entry has delivered its event,
\* and the entry of another key is still there.
C15_Witness ==
  /\ last.op = "remove" /\ last.removed = 0
  /\ events = <<RemoveEvent(last.e, last.key, store)>>
  /\ listeners[last.e]["remove"] # <<>>
  /\ Len(store) = 1

\* The one `clear` event a call on engine e delivers.
ClearEvent(e, seen) ==
  [type |-> "clear", key |-> NoKey, value |-> NoValue, timestamp |-> now,
   to |-> listeners[e]["clear"], caught |-> <<>>, seen |-> seen]

\* C16: clear() emits exactly one `clear` event (delivered when a `clear`
\* listener is registered) and no other event, no `remove` event included,
\* however many entries it deleted; the listeners of the event find a
\* Storage object without any prefixed entry.
C16_ClearEvent ==
  [][IsCall("clear") =>
       /\ events' = IF listeners[last'.e]["clear"] # <<>>
                      THEN <<ClearEvent(last'.e, store')>> ELSE <<>>
       /\ \A i \in 1..Len(events') : Prefixed(last'.e, events'[i].seen) = {}
       /\ Prefixed(last'.e, store') = {}]_vars

\* C16 witness: with `clear` and `remove` listeners registered, clear has
\* deleted two entries and delivered one event.
C16_Witness ==
  /\ last.op = "clear" /\ last.removed = 2
  /\ listeners[last.e]["clear"] # <<>> /\ listeners[last.e]["remove"] # <<>>
  /\ Len(events) = 1

\* C17: clearExpired() deletes exactly the prefixed entries that decode to
\* an envelope whose expiry has passed, returns how many it deleted, and
\* leaves every other entry (live, undecodable, foreign) in place.
C17_SweepExact ==
  [][IsCall("clearExpired") =>
       LET e == last'.e
           Doomed(r) == HasPrefix(r.key, options[e].prefix) /\ ExpiredAt(e, r.text, now)
       IN /\ store' = SelectSeq(store, LAMBDA r : ~Doomed(r))
          /\ ret' = Len(SelectSeq(store, Doomed))]_vars

\* C17 witness: the sweep has deleted one expired entry and left a junk
\* text under the prefix in place.
C17_Witness ==
  /\ last.op = "clearExpired" /\ ret = 1 /\ last.removed = 1
  /\ Len(store) = 1
  /\ HasPrefix(store[1].key, options[last.e].prefix)
  /\ store[1].text = Junk

\* C18: clearExpired() emits exactly one `expired` event without a key
\* (delivered when an `expired` listener is registered) when it deleted at
\* least one entry, and in no case any other event; it emits no event at all
\* when it deleted none.
C18_SweepEvent ==
  [][IsCall("clearExpired") =>
       events' = IF Len(store') < Len(store) /\ listeners[last'.e]["expired"] # <<>>
                   THEN <<ExpiredEvent(last'.e, NoKey, store')>>
                   ELSE <<>>]_vars

\* C18 witness: with `expired` and `remove` listeners registered, a sweep
\* that deleted two entries has delivered one event, which carries no key.
C18_Witness ==
  /\ last.op = "clearExpired" /\ last.removed = 2
  /\ listeners[last.e]["expired"] # <<>> /\ listeners[last.e]["remove"] # <<>>
  /\ Len(events) = 1 /\ events[1].type = "expired" /\ events[1].key = NoKey

\* The text is an envelope an engine wrote with set (plain or obfuscated)
\* and its expiry has passed at time t.
StaleLeftover(text, t) ==
  /\ text.kind \in {"json", "b64"}
  /\ text.doc.shape = "object"
  /\ text.doc.created.k = "num"
  /\ text.doc.expires.k = "num"
  /\ t > text.doc.expires.n

\* C19: right after an engine is constructed, no entry under its prefix is
\* an envelope written by an earlier engine with the same prefix whose
\* expiry has passed, and getStats() of the new engine reports expired = 0.
C19_ConstructionSweep ==
  [][IsCall("new") =>
       /\ \A i \in Prefixed(last'.e, store') : ~StaleLeftover(store'[i].text, now)
       /\ getStats(options[last'.e], listeners'[last'.e], store', now).ret.expired = 0]_vars

\* The expiry a set that returned true has written, when the durations in
\* `instant` are turned into now + d and a call without a duration takes the
\* configured default (a default of 0 being "never").
PersistsExpiry(instant) ==
  (IsCall("set") /\ ret' = TRUE) =>
    LET text == Entry(store', last'.e, last'.key)
        d == last'.arg.expires
        dflt == options[last'.e].defaultExpires
    IN /\ text.kind \in {"json", "b64"}
       /\ text.doc.shape = "object"
       /\ text.doc.expires =
            IF d.k = "num"
              THEN IF d.n \in instant THEN [k |-> "num", n |-> now + d.n]
                   ELSE [k |-> "null", n |-> 0]
            ELSE IF dflt.n # 0 THEN [k |-> "num", n |-> now + dflt.n]
            ELSE [k |-> "null", n |-> 0]

\* C20 (as amended): a per-call duration takes precedence over the configured
\* default: set(k, v, {expires: d}) persists expires = (time of the write) + d
\* for every supplied d other than 0, and a supplied d = 0 persists an entry
\* that never expires, whatever defaultExpires is; the configured default is
\* used only when the call gives no duration.
C20_PerCallDuration == [][PersistsExpiry(Int \ {0})]_vars

\* C20 as claimed: expires = (time of the write) + d for every supplied d,
\* d = 0 included.
C20_AsClaimed == [][PersistsExpiry(Int)]_vars

\* C20 witness: on an engine configured with a default duration, a set with
\* another per-call duration has written the expiry of the per-call one.
C20_Witness ==
  /\ last.op = "set" /\ ret = TRUE
  /\ options[last.e].defaultExpires.n = DefaultDuration
  /\ last.arg.expires = [k |-> "num", n |-> 1]
  /\ Entry(store, last.e, last.key).doc.expires = [k |-> "num", n |-> now + 1]
  /\ Entry(store, last.e, last.key).doc.expires.n # now + DefaultDuration

\* The text is an envelope, in the form engine e writes, that holds no
\* expiry (expires null).
Forever(e, text) == Written(e, text) /\ text.doc.expires.k = "null"

\* C21: an item written by set without a per-call duration on an engine
\* whose default duration is zero never expires: the envelope holds no
\* expiry, and at every clock value has(k) is true and get(k) returns the
\* value, both leaving the entry alone, and neither clearExpired nor the
\* construction of an engine deletes or changes it.
C21_NeverExpires ==
  [][/\ (IsCall("set") /\ ret' = TRUE /\ last'.arg.expires.k = "undefined"
          /\ options[last'.e].defaultExpires.n = 0)
         => Forever(last'.e, Entry(store', last'.e, last'.key))
     /\ (IsCall("has") /\ Forever(last'.e, Entry(store, last'.e, last'.key)))
         => (ret' = TRUE /\ store' = store)
     /\ (IsCall("get") /\ Forever(last'.e, Entry(store, last'.e, last'.key))
          /\ Entry(store, last'.e, last'.key).doc.value # "undefined")
         => (ret' = Entry(store, last'.e, last'.key).doc.value /\ store' = store)
     /\ (IsCall("clearExpired") \/ IsCall("new"))
         => \A i \in Prefixed(last'.e, store) :
              Forever(last'.e, store[i].text)
                => getItem(store', store[i].key) = store[i].text]_vars

\* C21 witness: at the last clock value, has() has just answered true for an
\* entry written at time 0 without an expiry.
C21_Witness ==
  /\ last.op = "has" /\ ret = TRUE /\ now = MaxTime
  /\ Forever(last.e, Entry(store, last.e, last.key))
  /\ Entry(store, last.e, last.key).doc.created.n = 0

\* How many times f occurs in the sequence fs.
Count(f, fs) == Len(SelectSeq(fs, LAMBDA x : x = f))

\* C22: the registry is a set per event type: on(type, f) adds f to the
\* listeners of that type, once however often it is registered, and leaves
\* the other types alone; off(type, f) removes it, and changes nothing when
\* f was not registered; every event of a call invokes each listener
\* registered for its type exactly once and no other listener.
C22_RegistryIsSet ==
  [][/\ IsCall("on") =>
          LET e == last'.e  ty == last'.val  f == last'.key[1]
          IN /\ Range(listeners'[e][ty]) = Range(listeners[e][ty]) \cup {f}
             /\ \A g \in Range(listeners'[e][ty]) : Count(g, listeners'[e][ty]) = 1
             /\ \A other \in EventTypes \ {ty} : listeners'[e][other] = listeners[e][other]
     /\ IsCall("off") =>
          LET e == last'.e  ty == last'.val  f == last'.key[1]
          IN /\ Range(listeners'[e][ty]) = Range(listeners[e][ty]) \ {f}
             /\ \A g \in Range(listeners'[e][ty]) : Count(g, listeners'[e][ty]) = 1
             /\ \A other \in EventTypes \ {ty} : listeners'[e][other] = listeners[e][other]
             /\ f \notin Range(listeners[e][ty]) => listeners' = listeners
     /\ \A i \in 1..Len(events') :
          \A f \in U.listenerIds :
            Count(f, events'[i].to)
              = IF f \in Range(listeners[last'.e][events'[i].type]) THEN 1 ELSE 0]_vars

\* C22 witness: a `set` event was delivered to the one listener registered
\* for `set`, and not to the listener registered for `remove` only.
C22_Witness ==
  /\ last.op = "set" /\ ret = TRUE
  /\ Len(events) = 1 /\ events[1].type = "set" /\ events[1].to = <<"L1">>
  /\ listeners[last.e]["set"] = <<"L1">>
  /\ listeners[last.e]["remove"] = <<"X1">>

\* The registry of engine e without the listeners that throw.
Quiet(e) ==
  [ty \in EventTypes |-> SelectSeq(listeners[e][ty], LAMBDA f : f \notin Throwing)]

\* What the call that has just returned could return, and leave in the
\* Storage object, had the listeners that throw not been registered.
AsIfQuiet ==
  LET e == last'.e  k == last'.key  opt == options[last'.e]
  IN CASE IsCall("set") ->
            {[ret |-> r.ret, store |-> r.store] :
               r \in {set(opt, Quiet(e), k, last'.val, last'.arg, store, now, now', p) :
                        p \in Places(store, getFullKey(opt, k))}}
       [] IsCall("get") ->
            LET r == get(opt, Quiet(e), k, last'.val, store, now)
            IN {[ret |-> r.ret, store |-> r.store]}
       [] IsCall("has") ->
            LET r == has(opt, Quiet(e), k, store, now)
            IN {[ret |-> r.ret, store |-> r.store]}
       [] IsCall("remove") ->
            LET r == remove(opt, Quiet(e), k, store, now)
            IN {[ret |-> r.ret, store |-> r.store]}
       [] IsCall("clear") ->
            LET r == clear(opt, Quiet(e), store, now)
            IN {[ret |-> r.ret, store |-> r.store]}
       [] IsCall("clearExpired") ->
            LET r == clearExpired(opt, Quiet(e), store, now)
            IN {[ret |-> r.ret, store |-> r.store]}
       [] OTHER -> {[ret |-> ret', store |-> store']}

\* C23: when a listener throws during an event, every listener registered
\* for the event is still invoked, each exception is caught where it was
\* thrown, and the call returns what it would return, with the same
\* Storage object, had no throwing listener been registered.
C23_ListenerIsolation ==
  [][/\ \A i \in 1..Len(events') :
          /\ events'[i].to = listeners[last'.e][events'[i].type]
          /\ events'[i].caught = SelectSeq(events'[i].to, LAMBDA f : f \in Throwing)
     /\ [ret |-> ret', store |-> store'] \in AsIfQuiet]_vars

\* C23 witness: the first of two `set` listeners threw, the second was still
\* invoked, and set returned true with the entry written.
C23_Witness ==
  /\ last.op = "set" /\ ret = TRUE
  /\ Len(events) = 1 /\ events[1].to = <<"X1", "L1">> /\ events[1].caught = <<"X1">>
  /\ Entry(store, last.e, last.key).doc.value = last.val

\* C24: a single call of set, get, has, remove, clear or clearExpired
\* delivers at most one event in total, over all event types, to the
\* engine's listeners.
C24_AtMostOneEvent ==
  [][last'.op \in {"set", "get", "has", "remove", "clear", "clearExpired"}
       => Len(events') <= 1]_vars

\* A call of the Storage object fails during the call of method op that has
\* just returned: the member it calls throws, and the call gets to it.
StorageFails(op) ==
  LET e == last'.e
      some == Prefixed(e, store) # {}
      stale == \E i \in Prefixed(e, store) : ExpiredAt(e, store[i].text, now)
      walk == "length" \in broken \/ ("key" \in broken /\ Len(store) > 0)
  IN CASE op = "remove" -> "removeItem" \in broken
       [] op = "clear" -> walk \/ ("removeItem" \in broken /\ some)
       [] op \in {"get", "has"} -> "getItem" \in broken
       [] op = "keys" -> walk \/ ("getItem" \in broken /\ some)
       [] op = "clearExpired" ->
            walk \/ ("getItem" \in broken /\ some) \/ ("removeItem" \in broken /\ stale)
       [] op = "getStats" -> walk \/ ("getItem" \in broken /\ some)
       [] OTHER -> FALSE

\* C25: when a call of the underlying Storage object fails, remove and clear
\* return false and emit no event, get returns the default/null, has returns
\* false, keys returns a list (of logical keys of stored entries),
\* clearExpired returns a count (the number of entries it deleted) and
\* getStats returns a stats record (with total = expired + valid).
C25_NoThrow ==
  [][/\ (IsCall("remove") /\ StorageFails("remove")) => (ret' = FALSE /\ events' = <<>>)
     /\ (IsCall("clear") /\ StorageFails("clear")) => (ret' = FALSE /\ events' = <<>>)
     /\ (IsCall("get") /\ StorageFails("get")) => ret' = CoalesceNull(last'.val)
     /\ (IsCall("has") /\ StorageFails("has")) => ret' = FALSE
     /\ (IsCall("keys") /\ StorageFails("keys")) =>
          \A i \in 1..Len(ret') : Entry(store, last'.e, ret'[i]) # NoText
     /\ (IsCall("clearExpired") /\ StorageFails("clearExpired")) =>
          (ret' \in Nat /\ ret' = Len(store) - Len(store'))
     /\ (IsCall("getStats") /\ StorageFails("getStats")) =>
          /\ {ret'.total, ret'.expired, ret'.valid, ret'.usedBytes} \subseteq Nat
          /\ ret'.total = ret'.expired + ret'.valid]_vars

\* C25 witness: removeItem throws, an entry is stored and listeners for
\* `remove` and `clear` are registered; clear has returned false, with no
\* event and the entry still there.
C25_Witness ==
  /\ last.op = "clear" /\ ret = FALSE /\ broken = {"removeItem"}
  /\ events = <<>>
  /\ listeners[last.e]["clear"] # <<>> /\ listeners[last.e]["remove"] # <<>>
  /\ Entry(store, last.e, <<"k">>) # NoText

\* C26: whatever the engine's configured obfuscation and whatever the
\* per-call override, after set(k, v, {encrypt: e}) has returned true for a
\* storable v, get(k) on the same engine returns v and has(k) is true.
C26_OverrideReadable ==
  [][(IsCall("set") /\ ret' = TRUE /\ Storable(last'.val)) =>
       /\ get(options[last'.e], listeners[last'.e], last'.key, "undefined", store', now').ret
            = last'.val
       /\ has(options[last'.e], listeners[last'.e], last'.key, store', now').ret = TRUE]_vars

\* The text is what obfuscation with the key of engine e produces.
Obfuscated(e, text) == text.kind = "b64" /\ text.ekey = options[e].encryptKey

\* C28: on an engine configured with obfuscation, a stored text that is not
\* a validly obfuscated envelope makes get return the default/null and has
\* return false.
C28_FailedReversal ==
  [][LET e == last'.e
         text == Entry(store, e, last'.key)
     IN /\ (IsCall("get") /\ options[e].encrypt /\ ~Obfuscated(e, text))
             => ret' = CoalesceNull(last'.val)
        /\ (IsCall("has") /\ options[e].encrypt /\ ~Obfuscated(e, text))
             => ret' = FALSE]_vars

\* C27: for every string x and every non-empty key, serialize(x, true, key)
\* does not fail and deserialize(serialize(x, true, key), true, key) is x.
C27_ObfuscationRoundTrip ==
  /\ last.op = "serialize" => ret.ok
  /\ last.op = "roundtrip" => ret = [ok |-> TRUE, value |-> last.key]

\* C29: every envelope a set persists with a finite expiry has
\* created <= expires.
C29_CreatedBeforeExpires ==
  [][(IsCall("set") /\ ret' = TRUE) =>
       LET doc == Entry(store', last'.e, last'.key).doc
       IN doc.expires.k = "num" => doc.created.n <= doc.expires.n]_vars

\* The envelope the set that has just returned describes by itself: its
\* value, its own expiry and the time of the call.
OwnEnvelope ==
  LET d == last'.arg.expires
      dflt == options[last'.e].defaultExpires
  IN [kind |-> "json", ekey |-> "",
      doc |-> [shape |-> "object", value |-> last'.val,
               expires |-> IF d.k = "num" /\ d.n # 0 THEN [k |-> "num", n |-> now + d.n]
                           ELSE IF d.k # "num" /\ dflt.n # 0
                             THEN [k |-> "num", n |-> now + dflt.n]
                           ELSE [k |-> "null", n |-> 0],
               created |-> [k |-> "num", n |-> now']]]

\* C30: two engines with the same prefix and obfuscation settings write one
\* logical key: after a successful set by either, the entry is exactly the
\* envelope of that set (nothing of the envelope it replaces is kept) and
\* get on either engine returns its value; only a successful set puts a
\* different text under the key; and get on either engine returns the value
\* of the stored envelope up to its expiry and the default/null after it.
C30_LastWriteWins ==
  [][/\ (IsCall("set") /\ ret' = TRUE /\ Storable(last'.val)) =>
          /\ Entry(store', last'.e, last'.key) = OwnEnvelope
          /\ \A x \in Engines :
               get(options[x], listeners[x], last'.key, "undefined", store', now').ret
                 = last'.val
     /\ \A x \in Engines, k \in U.keys :
          (Entry(store', x, k) # Entry(store, x, k) /\ Entry(store', x, k) # NoText)
            => (IsCall("set") /\ last'.key = k /\ ret' = TRUE)
     /\ GetHonoursExpiry]_vars

\* C30 witness: engine A has just read, under the key both engines write,
\* the value of an envelope that engine B wrote (it carries B's default
\* duration, which A does not have and no call passes).
C30_Witness ==
  /\ last.op = "get" /\ last.e = "A" /\ ret = "n2"
  /\ Entry(store, "A", last.key).doc.value = "n2"
  /\ Entry(store, "A", last.key).doc.expires.k = "num"
  /\ Entry(store, "A", last.key).doc.expires.n
       = Entry(store, "A", last.key).doc.created.n + DefaultDuration

\* The step is the scheduler running the callbacks that the binding call op,
\* which has just returned, left pending.
FlushAfter(op) == last.op = op /\ IsCall("flush")

\* C31: after setValue(v, {expires: d}) on a binding, and after every
\* pending watcher callback has run, the persisted envelope still expires at
\* the time of the setValue write plus d: the write the watcher triggers
\* does not put the default expiry in its place.
C31_SetValueKeepsExpiry ==
  [][(/\ FlushAfter("setValue")
      /\ last.arg.expires.k = "num" /\ last.arg.expires.n > 0
      /\ Entry(store, "A", binding.key).doc.expires = Num(now + last.arg.expires.n))
       => /\ Entry(store', "A", binding.key).doc.value = binding'.cell
          /\ Entry(store', "A", binding.key).doc.expires = Num(now + last.arg.expires.n)]_vars

\* C32: after removeValue() / remove() on a binding whose cell holds a value
\* other than the default, and after the pending watcher callbacks have run,
\* the storage holds no entry for the key and the cell holds the default.
C32_RemoveStaysRemoved ==
  [][FlushAfter("removeValue")
       => /\ Entry(store', "A", binding.key) = NoText
          /\ binding'.cell = binding'.dflt]_vars

\* C33: the binding persists every mutation: after any assignment to, or
\* in-place change of, the cell, once the pending watcher callbacks have
\* run, get(key) on the engine returns a value equal to the cell's, a
\* mutation made immediately before destroy() included.
C33_EveryMutationPersisted ==
  [][IsCall("flush")
       => get(options["A"], NoListeners, binding.key, "undefined", store', now').ret
            = binding'.cell]_vars

\* The binding has been destroyed: constructed, and its watcher stopped.
Destroyed == binding.made /\ ~binding.watching

\* C34: after destroy() has returned, assignments to the cell never change
\* the storage (neither at once nor when the scheduler runs), a second
\* destroy() changes nothing, and the engine stays usable: setValue writes
\* its envelope, remove deletes the entry, refresh reads the storage.
C34_AfterDestroy ==
  [][/\ (last.op = "destroy" /\ IsCall("flush")) => store' = store
     /\ Destroyed =>
          LET k == binding.key
              text == Entry(store, "A", k)
          IN /\ (IsCall("assign") \/ IsCall("reset") \/ IsCall("flush"))
                  => store' = store
             /\ IsCall("assign") => binding'.cell = last'.val
             /\ IsCall("destroy") => (binding' = binding /\ store' = store)
             /\ IsCall("setValue")
                  => (Entry(store', "A", k) = OwnEnvelope /\ binding'.cell = last'.val)
             /\ IsCall("removeValue")
                  => (Entry(store', "A", k) = NoText /\ binding'.cell = binding.dflt)
             /\ IsCall("refresh")
                  => IF text # NoText
                          /\ ~(text.doc.expires.k = "num" /\ now > text.doc.expires.n)
                       THEN binding'.cell = text.doc.value /\ store' = store
                       ELSE binding'.cell = binding.dflt /\ Entry(store', "A", k) = NoText]_vars

\* C34 witness: the scheduler has run after destroy(), and the cell holds a
\* value assigned since that the storage, which holds another, never got.
C34_Witness ==
  /\ Destroyed /\ last.op = "flush"
  /\ binding.cell = "n2"
  /\ Entry(store, "A", binding.key).doc.value = "n1"

\* C35: set replaces the whole envelope: a successful set(k, v2) without a
\* duration over an envelope that carries an expiry leaves an envelope whose
\* value is v2, whose created time is that of this write and whose expiry
\* comes from the configured default (none when no default is configured);
\* nothing of the expiry it replaces is kept.
C35_SetReplacesEnvelope ==
  [][LET e == last'.e
         old == Entry(store, e, last'.key)
         new == Entry(store', e, last'.key)
         dflt == options[e].defaultExpires
     IN (/\ IsCall("set") /\ ret' = TRUE
         /\ last'.arg.expires.k = "undefined"
         /\ Written(e, old) /\ old.doc.expires.k = "num")
          => /\ Written(e, new)
             /\ new.doc.value = last'.val
             /\ new.doc.created = Num(now')
             /\ new.doc.expires = IF dflt.n = 0 THEN Null ELSE Num(now + dflt.n)]_vars

\* C35 witness: on the engine without a default duration, a set without a
\* duration has just written, after the clock has advanced, the second
\* value into an envelope that never expires and was created now.
C35_Witness ==
  /\ last.op = "set" /\ last.e = "A" /\ ret = TRUE
  /\ last.arg.expires.k = "undefined" /\ last.val = "n2"
  /\ now > 0
  /\ Entry(store, "A", last.key).doc
       = [shape |-> "object", value |-> "n2", expires |-> Null, created |-> Num(now)]

\* The text is an envelope engine e wrote with a value, and it has not
\* expired at time t.
Live(e, text, t) ==
  /\ Written(e, text)
  /\ text.doc.value # "undefined"
  /\ text.doc.expires.k \in {"null", "num"}
  /\ text.doc.expires.k = "num" => t <= text.doc.expires.n

\* C36: reads never extend an entry's life: get(k) and has(k) on a live
\* entry leave the Storage object exactly as it was, stored expiry and
\* created time included, get returning the value and has true.
C36_ReadsDoNotRefresh ==
  [][((IsCall("get") \/ IsCall("has"))
        /\ Live(last'.e, Entry(store, last'.e, last'.key), now))
       => /\ store' = store
          /\ IsCall("get") => ret' = Entry(store, last'.e, last'.key).doc.value
          /\ IsCall("has") => ret' = TRUE]_vars

\* C36 witness: has has just answered true for an envelope written earlier
\* with a duration, at the last moment of its life, and the envelope still
\* carries the expiry and the created time of its write.
C36_Witness ==
  /\ last.op = "has" /\ ret = TRUE
  /\ Entry(store, last.e, last.key).doc.expires = Num(now)
  /\ Entry(store, last.e, last.key).doc.created = Num(now - 1)

\* C37: getStats is a pure observation: it deletes nothing, expired entries
\* it counts included, writes nothing and delivers no event, whatever
\* listeners are registered; two consecutive calls at the same clock value
\* return the same record.
C37_StatsPure ==
  [][IsCall("getStats")
       => /\ store' = store
          /\ events' = <<>>
          /\ (last.op = "getStats" /\ last.e = last'.e /\ now' = now) => ret' = ret]_vars

\* C37 witness: getStats has counted an expired entry while a listener of
\* `expired` is registered: the entry is still stored and no event went out.
C37_Witness ==
  /\ last.op = "getStats" /\ ret.expired = 1
  /\ listeners[last.e]["expired"] # <<>>
  /\ events = <<>>
  /\ \E k \in U.keys : ExpiredAt(last.e, Entry(store, last.e, k), now)

\* C38: the `set` event is delivered only after the write has reached the
\* Storage object and only for a write that succeeded: a set that returns
\* false delivers nothing; a set that returns true with `set` listeners
\* registered delivers one event that carries the key and the caller's
\* value, and a listener that calls get(k) on the same engine while the
\* event is delivered reads the value just written.
C38_SetEventAfterWrite ==
  [][IsCall("set") =>
       LET e == last'.e
           k == last'.key
       IN /\ ret' = FALSE => (events' = <<>> /\ store' = store)
          /\ (ret' = TRUE /\ listeners[e]["set"] # <<>>) => Len(events') = 1
          /\ \A i \in DOMAIN events' :
               /\ ret' = TRUE
               /\ events'[i].type = "set"
               /\ events'[i].key = {k}
               /\ events'[i].value = last'.val
               /\ events'[i].to = listeners[e]["set"]
               /\ Entry(events'[i].seen, e, k) = Entry(store', e, k)
               /\ Entry(events'[i].seen, e, k).doc.created = Num(now')
               /\ Storable(last'.val) =>
                    get(options[e], listeners[e], k, "undefined", events'[i].seen, now').ret
                      = last'.val]_vars

\* C38 witness: a set over an older envelope has delivered its event, and
\* the Storage object the listener saw held the envelope of this write.
C38_Witness ==
  /\ last.op = "set" /\ ret = TRUE /\ now > 0
  /\ Len(events) = 1 /\ events[1].type = "set" /\ events[1].value = "n1"
  /\ Entry(events[1].seen, last.e, last.key).doc.value = "n1"
  /\ Entry(events[1].seen, last.e, last.key).doc.created = Num(now)

\* C39: whenever get(k) delivers an `expired` event for k and returns the
\* default/null, the Storage object holds no entry for k at that moment,
\* whatever listeners are registered, those that call back into the engine
\* during the operation (for example on `remove`) included.
C39_ExpiredMeansGone ==
  [][IsCall("get") =>
       \A i \in DOMAIN events' :
         (events'[i].type = "expired" /\ events'[i].key = {last'.key}
            /\ ret' = CoalesceNull(last'.val))
           => Entry(events'[i].seen, last'.e, last'.key) = NoText]_vars

\* C40: has and get agree on an entry written by set(k, v), for every v,
\* undefined included: right after a successful set, has(k) is true exactly
\* when get(k) returns the stored value rather than the default, and keys()
\* lists k exactly in that case.
C40_HasGetAgree ==
  (last.op = "set" /\ ret = TRUE) =>
    LET opt == options[last.e]
        ls == listeners[last.e]
        found == get(opt, ls, last.key, "dflt", store, now).ret # "dflt"
        listed == \E i \in DOMAIN keys(opt, ls, store, now).ret :
                    keys(opt, ls, store, now).ret[i] = last.key
    IN /\ has(opt, ls, last.key, store, now).ret <=> found
       /\ listed <=> found

=============================================================================
